---------------------------- MODULE Spec2Model ----------------------------
(***************************************************************************)
(* A model of the ionospheric ray tracer of web-condx (visualizations.js,   *)
(* physics section, lines 1498-2582): the layered electron-density model,   *)
(* the complex refractive index, and the four step-loop integrators         *)
(* traceRaySphericalWithPath, traceRayWithAbsorption, traceRay2DWithTilts   *)
(* and traceRay2DWithAbsorption.                                            *)
(*                                                                         *)
(* The source computes in IEEE doubles.  The model computes in fixed point  *)
(* on integers, every quantity in a stated unit:                            *)
(*   dimensionless numbers (Re n, sin, cos, X, exp)   in 1/NS   (1e-4)      *)
(*   imaginary parts (Z, Im n^2, Im n)                in 1/PS   (1e-6)      *)
(*   radial lengths (r, z, altitudes, step, dr)       in metres             *)
(*   ground lengths (x, distances)                    in centimetres        *)
(*   the polar angle theta                            in 1/TS rad (1e-8)    *)
(*   the azimuth phi                                  in 1/PS rad (1e-6)    *)
(*   frequencies freq, foF2                           in kHz                *)
(*   the collision frequency nu                       in 10 Hz              *)
(*   electron densities                               in 1e6 m^-3           *)
(*   the accumulated loss                             in 1/PS neper         *)
(* Divisions round down where the source rounds to nearest.                 *)
(***************************************************************************)
EXTENDS Integers, Sequences, FiniteSets, TLC

NS == 10 ^ 4
TS == 10 ^ 8
PS == 10 ^ 6
KM == 10 ^ 3

Abs(a) == IF a < 0 THEN -a ELSE a
Sign(a) == IF a > 0 THEN 1 ELSE IF a < 0 THEN -1 ELSE 0
Max(a, b) == IF a >= b THEN a ELSE b
Min(a, b) == IF a <= b THEN a ELSE b

\* floor(a * b / d) for d > 0 and d * |b| below 2^31, without forming a * b.
MulDiv(a, b, d) == (a \div d) * b + ((a % d) * b) \div d

\* floor(a * NS / d) for a >= 0 and 0 < d < 2^31 / 10, by long division.
DivNS(a, d) ==
    LET r1 == a % d
        q2 == (r1 * 10) \div d
        r2 == (r1 * 10) % d
        q3 == (r2 * 10) \div d
        r3 == (r2 * 10) % d
        q4 == (r3 * 10) \div d
        r4 == (r3 * 10) % d
        q5 == (r4 * 10) \div d
    IN  (a \div d) * NS + q2 * 1000 + q3 * 100 + q4 * 10 + q5

\* floor(a * PS / d) for a >= 0 and 0 < d < 2^31 / 100, by long division.
DivPS(a, d) ==
    LET r1 == a % d
        q2 == (r1 * 100) \div d
        r2 == (r1 * 100) % d
        q3 == (r2 * 100) \div d
        r3 == (r2 * 100) % d
        q4 == (r3 * 100) \div d
    IN  (a \div d) * PS + q2 * 10000 + q3 * 100 + q4

\* Math.sqrt on a non-negative integer: the integer square root.
RECURSIVE SqrtSearch(_, _, _)
SqrtSearch(v, lo, hi) ==
    IF lo >= hi THEN lo
    ELSE LET mid == (lo + hi + 1) \div 2
         IN  IF mid * mid <= v THEN SqrtSearch(v, mid, hi)
                               ELSE SqrtSearch(v, lo, mid - 1)

MathSqrt(v) == SqrtSearch(v, 0, 46340)

\* e^k in 1/NS for k in -10..10.
EPow == <<0, 1, 3, 9, 25, 67, 183, 498, 1353, 3679, 10000,
          27183, 73891, 200855, 545982, 1484132, 4034288,
          10966332, 29809580, 81030839, 220264658>>

\* e^f in 1/NS for 0 <= f < NS: the Taylor polynomial of degree 7.
ExpFrac(f) ==
    LET t2 == (f * f) \div (2 * NS)
        t3 == (t2 * f) \div (3 * NS)
        t4 == (t3 * f) \div (4 * NS)
        t5 == (t4 * f) \div (5 * NS)
        t6 == (t5 * f) \div (6 * NS)
        t7 == (t6 * f) \div (7 * NS)
    IN  NS + f + t2 + t3 + t4 + t5 + t6 + t7

\* Math.exp of a (in 1/NS), in 1/NS; below e^-10 the result is under one unit.
MathExp(a) ==
    LET k == a \div NS
        f == a % NS
    IN  IF k < -10 THEN 0
        ELSE MulDiv(EPow[k + 11], ExpFrac(f), NS)

\* Math.sin of a (in 1/NS rad, |a| <= pi), in 1/NS: the Taylor polynomial of
\* degree 11.
MathSin(a) ==
    LET a2 == (a * a) \div NS
        t3 == MulDiv(a, a2, NS) \div 6
        t5 == MulDiv(t3, a2, NS) \div 20
        t7 == MulDiv(t5, a2, NS) \div 42
        t9 == MulDiv(t7, a2, NS) \div 72
        t11 == MulDiv(t9, a2, NS) \div 110
    IN  a - t3 + t5 - t7 + t9 - t11


(***************************************************************************)
(* Physical constants and the density model (visualizations.js 1498-1842). *)
(***************************************************************************)
\* Earth radius in km.
R_E == 6371

\* Earth radius in metres.
R_E_m == R_E * KM

\* chapmanLayerSingle(z, N_peak, z_peak, H): z, z_peak and H in metres.
chapmanLayerSingle(z, N_peak, z_peak, H) ==
    LET reduced_z == MulDiv(z - z_peak, NS, H)
        exponent == NS - reduced_z - MathExp(-reduced_z)
    IN  MulDiv(N_peak, MathExp(exponent), NS)

\* Ne_F2_peak = (foF2 * 1e6 / 8.98)^2, in 1e6 m^-3.
NeF2Peak(foF2) ==
    LET root10 == (foF2 * 1000) \div 898
    IN  (root10 * root10) \div 100

\* The F2 peak altitude before the seasonal offset, in metres.
hF2Base(foF2) ==
    IF foF2 < 4500
    THEN Max(260000, Min(350000, 260000 + (4500 - foF2) * 36))
    ELSE IF foF2 < 7000
    THEN LET transition_factor == ((foF2 - 4500) * NS) \div 2500
         IN  300000 - (transition_factor * 20000) \div NS
    ELSE Max(250000, Min(300000, 300000 - (foF2 - 7000) * 2))

\* A seasonal offset that takes every season but 'summer' and 'equinox' for
\* 'winter'.
seasonalOffsetWinterElse(foF2, season) ==
    IF season = "summer" THEN -10000
    ELSE IF season = "equinox" THEN 0
    ELSE IF foF2 >= 7000 THEN 10000 ELSE 15000

\* The seasonal offset of the F2 peak altitude, in metres.
seasonalOffset(foF2, season) ==
    IF foF2 >= 7000
    THEN IF season = "summer" THEN -10000
         ELSE IF season = "winter" THEN 10000 ELSE 0
    ELSE IF foF2 >= 4500
    THEN IF season = "summer" THEN -10000
         ELSE IF season = "winter" THEN 15000 ELSE 0
    ELSE IF season = "summer" THEN -10000
         ELSE IF season = "winter" THEN 15000 ELSE 0

\* The F2 peak altitude without the re-clamp that follows the offset.
hF2WithoutReclamp(foF2, season) == hF2Base(foF2) + seasonalOffset(foF2, season)

\* The regime the base formula takes (lines 1563, 1569), the regime the
\* seasonal offset takes (lines 1586, 1594) and the regime of the re-clamp
\* (lines 1611, 1613).
baseRegime(foF2) ==
    IF foF2 < 4500 THEN "night" ELSE IF foF2 < 7000 THEN "transition" ELSE "day"

offsetRegime(foF2) ==
    IF foF2 >= 7000 THEN "day" ELSE IF foF2 >= 4500 THEN "transition" ELSE "night"

clampRegime(foF2) ==
    IF foF2 < 4500 THEN "night" ELSE IF foF2 < 7000 THEN "transition" ELSE "day"

\* The bounds of the re-clamp of a regime, in metres.
regimeBounds(regime) ==
    IF regime = "night" THEN <<260000, 360000>>
    ELSE IF regime = "transition" THEN <<280000, 320000>>
    ELSE <<240000, 330000>>

\* The F2 peak altitude: base, seasonal offset, re-clamp; in metres.
hF2(foF2, season) ==
    LET h == hF2Base(foF2) + seasonalOffset(foF2, season)
    IN  IF foF2 < 4500 THEN Max(260000, Min(360000, h))
        ELSE IF foF2 < 7000 THEN Max(280000, Min(320000, h))
        ELSE Max(240000, Min(330000, h))

\* D layer strength, in 1/NS.
DFactor(foF2) ==
    IF foF2 < 5000 THEN 0
    ELSE IF foF2 < 8000 THEN ((foF2 - 5000) * NS) \div 3000
    ELSE NS

\* F1 layer strength, in 1/NS.
F1Factor(foF2) ==
    IF foF2 < 4500 THEN 0
    ELSE IF foF2 < 7000 THEN ((foF2 - 4500) * NS) \div 2500
    ELSE NS

\* E layer strength, in 1/NS.
EFactor(foF2) == NS \div 2 + Min(NS, (foF2 * NS) \div 12000) \div 2

\* The F2 scale height with its seasonal scaling, in metres.
F2ScaleHeight(foF2, season) ==
    LET base == IF foF2 < 4500 THEN 70000
                ELSE IF foF2 < 7000
                THEN LET transition_factor == ((foF2 - 4500) * NS) \div 2500
                     IN  70000 - (transition_factor * 15000) \div NS
                ELSE 55000
    IN  IF season = "winter" THEN (base * 12) \div 10
        ELSE IF season = "summer" THEN (base * 8) \div 10
        ELSE base

\* The sum of the E, F1 and F2 layers, without the D layer.
electronDensityWithoutD(z, foF2, season) ==
    chapmanLayerSingle(z, MulDiv(80000, EFactor(foF2), NS), 110000, 15000)
    + chapmanLayerSingle(z, MulDiv(600000, F1Factor(foF2), NS), 190000, 30000)
    + chapmanLayerSingle(z, NeF2Peak(foF2), hF2(foF2, season),
                         F2ScaleHeight(foF2, season))

\* electronDensitySingle(z, foF2, season): the sum of the four layers.
electronDensitySingle(z, foF2, season) ==
    LET Ne_D == chapmanLayerSingle(z, MulDiv(1500, DFactor(foF2), NS), 75000, 8000)
        Ne_E == chapmanLayerSingle(z, MulDiv(80000, EFactor(foF2), NS), 110000, 15000)
        Ne_F1 == chapmanLayerSingle(z, MulDiv(600000, F1Factor(foF2), NS), 190000, 30000)
        Ne_F2 == chapmanLayerSingle(z, NeF2Peak(foF2), hF2(foF2, season),
                                    F2ScaleHeight(foF2, season))
    IN  Ne_D + Ne_E + Ne_F1 + Ne_F2

\* The value NaN of a JavaScript number: no integer of the model's ranges.
NaN == -2147483647

\* electronDensity2DSingle(z, x, ...): foF2 interpolated linearly in x and
\* clamped to [2, 25] MHz; tilt_distance in km, x in centimetres.  With
\* tilt_distance = 0 the quotient x / tilt_distance is Infinity, -Infinity or
\* (0 / 0) NaN; its product with a zero difference is NaN; Math.min and
\* Math.max clamp the infinities and return NaN for NaN.
\* The interpolated foF2 without the clamp of line 1838 (tilt_distance > 0).
foF2Unclamped(x, foF2_at_tx, foF2_at_distance, tilt_distance) ==
    IF tilt_distance = 0 THEN NaN
    ELSE foF2_at_tx + MulDiv(foF2_at_distance - foF2_at_tx,
                             (x \div 10) \div tilt_distance, NS)

\* The interpolated foF2 clamped to 2 .. 10 MHz.
foF2LocalCappedAt10(x, foF2_at_tx, foF2_at_distance, tilt_distance) == Max(2000, Min(10000, foF2Unclamped(x, foF2_at_tx, foF2_at_distance, tilt_distance)))

foF2Local(x, foF2_at_tx, foF2_at_distance, tilt_distance) ==
    IF tilt_distance = 0
    THEN IF x = 0 \/ foF2_at_distance = foF2_at_tx THEN NaN
         ELSE IF Sign(x) * Sign(foF2_at_distance - foF2_at_tx) > 0 THEN 25000
         ELSE 2000
    ELSE LET ratio == (x \div 10) \div tilt_distance
             foF2_local == foF2_at_tx
                           + MulDiv(foF2_at_distance - foF2_at_tx, ratio, NS)
         IN  Max(2000, Min(25000, foF2_local))

\* Every comparison with a NaN foF2 fails and every sum and product with it
\* is NaN: the 1D formula returns NaN.
densityOfLocal(z, foF2_clamped, season) ==
    IF foF2_clamped = NaN THEN NaN
    ELSE electronDensitySingle(z, foF2_clamped, season)

electronDensity2DSingle(z, x, foF2_at_tx, foF2_at_distance, tilt_distance, season) ==
    densityOfLocal(z, foF2Local(x, foF2_at_tx, foF2_at_distance, tilt_distance),
                   season)

(***************************************************************************)
(* Plasma frequency, collision frequency, refractive index                  *)
(* (visualizations.js 1850-1929).                                           *)
(***************************************************************************)
\* sqrt(e^2 / (eps_0 m_e)) / (2 pi) = 8.979 Hz m^(3/2), in 1/1000.
PlasmaK == 8979

\* plasmaFrequencyFromNe(Ne), in 0.1 kHz.
plasmaFrequencyFromNe(Ne) == (PlasmaK * MathSqrt(Ne * 100)) \div 1000

\* collisionFrequency(z), z in metres, in 10 Hz.
collisionFrequency(z) ==
    IF z < 90000
    THEN MulDiv(MathExp(((70000 - z) * 10) \div 8), 35000, NS)
    ELSE IF z < 150000
    THEN MulDiv(MathExp((90000 - z) \div 2), 10000, NS)
    ELSE 100

\* omega = 2 pi freq_Hz, in 10 rad/s, of a frequency in kHz.
Omega(freq) == (62832 * freq) \div 100

\* refractiveIndex(Ne, freq, nu): Appleton-Hartree without magnetic field,
\* n^2 = 1 - X/(1+Z^2) + i XZ/(1+Z^2), and its principal square root.  The
\* source takes the root by magnitude and phase, |n^2|^(1/2) e^(i arg/2), with
\* arg = atan2(Im n^2, Re n^2) in [-pi, pi]; the model takes the same root by
\* the half-angle identity Re n = sqrt((|n^2| + Re n^2)/2), and Im n from
\* 2 Re n Im n = Im n^2, or, where Re n vanishes, Im n = +-sqrt((|n^2| - Re n^2)/2)
\* with the sign of Im n^2 (atan2 of a zero imaginary part is >= 0).
\* The result is [real (1/NS), imag (1/PS)].
refractiveIndex(Ne, freq, nu) ==
    LET omega == Omega(freq)
        ratio == (plasmaFrequencyFromNe(Ne) * 1000) \div Abs(freq)
        X == (ratio * ratio) \div NS
        Z == Sign(omega) * DivPS(nu, Abs(omega))
        denom == NS + (Z \div 10000) * (Z \div 10000)
        XoverD == (X * NS) \div denom
        n_sq_real == NS - XoverD
        n_sq_imag == MulDiv(Z, XoverD, NS)
        im4 == n_sq_imag \div 100
        modulus == MathSqrt(n_sq_real * n_sq_real + im4 * im4)
        re == MathSqrt(((modulus + n_sq_real) \div 2) * NS)
    IN  [real |-> re,
         imag |-> IF re > 0
                  THEN MulDiv(n_sq_imag, NS, 2 * re)
                  ELSE (IF n_sq_imag < 0 THEN -100 ELSE 100)
                       * MathSqrt(((modulus - n_sq_real) \div 2) * NS)]

\* n squared as the trace loops recompute it from n: [real (1/NS), imag (1/PS)].
nSquared(n) ==
    [real |-> (n.real * n.real - (n.imag \div 100) * (n.imag \div 100)) \div NS,
     imag |-> MulDiv(n.imag, 2 * n.real, NS)]

\* omega / (2 c), c = 3.0e8 m/s, per km, in 1/100, of a frequency in kHz.
OmegaOver2c(freq) == (freq * 10472) \div 10000

\* The Sen-Wyller absorption coefficient as the absorption loops compute it,
\* (omega / 2c) |Im n^2| / max(Re n, 1e-10), in 1/PS neper per km.  Re n is a
\* multiple of 1/NS, so the floor 1e-10 acts only on Re n = 0: one unit stands
\* for it.
alphaCoefficient(freq, n) ==
    MulDiv(MulDiv(Abs(nSquared(n).imag), NS, Max(n.real, 1)), OmegaOver2c(freq), 100)

(***************************************************************************)
(* makeIonosphereForFoF2 (visualizations.js 1546-1686) at one altitude: the  *)
(* array builder the 1D callers wrap into their density callable.           *)
(***************************************************************************)
\* The layer parameters makeIonosphereForFoF2 derives from foF2 and season
\* (lines 1550-1679).
makeIonosphereParameters(foF2, season) ==
    LET Ne_F2_peak == (((foF2 * 1000) \div 898) * ((foF2 * 1000) \div 898)) \div 100
        h_base == IF foF2 < 4500
                  THEN Max(260000, Min(350000, 260000 + (4500 - foF2) * 36))
                  ELSE IF foF2 < 7000
                  THEN 300000 - ((((foF2 - 4500) * NS) \div 2500) * 20000) \div NS
                  ELSE Max(250000, Min(300000, 300000 - (foF2 - 7000) * 2))
        seasonal_offset ==
            IF foF2 >= 7000
            THEN IF season = "summer" THEN -10000
                 ELSE IF season = "winter" THEN 10000 ELSE 0
            ELSE IF foF2 >= 4500
            THEN IF season = "summer" THEN -10000
                 ELSE IF season = "winter" THEN 15000 ELSE 0
            ELSE IF season = "summer" THEN -10000
                 ELSE IF season = "winter" THEN 15000 ELSE 0
        h_F2 == IF foF2 < 4500
                THEN Max(260000, Min(360000, h_base + seasonal_offset))
                ELSE IF foF2 < 7000
                THEN Max(280000, Min(320000, h_base + seasonal_offset))
                ELSE Max(240000, Min(330000, h_base + seasonal_offset))
        D_factor == IF foF2 < 5000 THEN 0
                    ELSE IF foF2 < 8000 THEN ((foF2 - 5000) * NS) \div 3000
                    ELSE NS
        F1_factor == IF foF2 < 4500 THEN 0
                     ELSE IF foF2 < 7000 THEN ((foF2 - 4500) * NS) \div 2500
                     ELSE NS
        E_factor == NS \div 2 + Min(NS, (foF2 * NS) \div 12000) \div 2
        H_base == IF foF2 < 4500 THEN 70000
                  ELSE IF foF2 < 7000
                  THEN 70000 - ((((foF2 - 4500) * NS) \div 2500) * 15000) \div NS
                  ELSE 55000
        F2_scale_height == IF season = "winter" THEN (H_base * 12) \div 10
                           ELSE IF season = "summer" THEN (H_base * 8) \div 10
                           ELSE H_base
    IN  [Ne_F2_peak |-> Ne_F2_peak, h_F2 |-> h_F2, F2_scale_height |-> F2_scale_height,
         D_factor |-> D_factor, F1_factor |-> F1_factor, E_factor |-> E_factor,
         Ne_D_peak |-> MulDiv(1500, D_factor, NS),
         Ne_E_peak |-> MulDiv(80000, E_factor, NS),
         Ne_F1_peak |-> MulDiv(600000, F1_factor, NS)]

\* The four Chapman layers at altitude z for the layer parameters p
\* (lines 1651-1653, 1681 and 1814-1817).
chapmanLayers(z, p) ==
    <<chapmanLayerSingle(z, p.Ne_D_peak, 75000, 8000),
      chapmanLayerSingle(z, p.Ne_E_peak, 110000, 15000),
      chapmanLayerSingle(z, p.Ne_F1_peak, 190000, 30000),
      chapmanLayerSingle(z, p.Ne_F2_peak, p.h_F2, p.F2_scale_height)>>

\* An array builder whose F1 peak is 3e11 instead of 6e11 m^-3.
makeIonosphereWithHalfF1(z, foF2, season) ==
    chapmanLayers(z, makeIonosphereParameters(foF2, season))[1]
    + chapmanLayers(z, makeIonosphereParameters(foF2, season))[2]
    + chapmanLayerSingle(z, makeIonosphereParameters(foF2, season).Ne_F1_peak \div 2,
                         190000, 30000)
    + chapmanLayers(z, makeIonosphereParameters(foF2, season))[4]

makeIonosphereForFoF2(z, foF2, season) ==
    LET p == makeIonosphereParameters(foF2, season)
    IN  chapmanLayerSingle(z, p.Ne_D_peak, 75000, 8000)
        + chapmanLayerSingle(z, p.Ne_E_peak, 110000, 15000)
        + chapmanLayerSingle(z, p.Ne_F1_peak, 190000, 30000)
        + chapmanLayerSingle(z, p.Ne_F2_peak, p.h_F2, p.F2_scale_height)

\* The layer parameters plotElectronDensity derives again for the D, E, F1
\* and F2 curves (lines 22-100).
plotLayerParameters(foF2, season) ==
    LET Ne_F2_peak == (((foF2 * 1000) \div 898) * ((foF2 * 1000) \div 898)) \div 100
        h_base == IF foF2 < 4500
                  THEN Max(260000, Min(350000, 260000 + (4500 - foF2) * 36))
                  ELSE IF foF2 < 7000
                  THEN 300000 - ((((foF2 - 4500) * NS) \div 2500) * 20000) \div NS
                  ELSE Max(250000, Min(300000, 300000 - (foF2 - 7000) * 2))
        seasonal_offset ==
            IF foF2 >= 7000
            THEN IF season = "summer" THEN -10000
                 ELSE IF season = "winter" THEN 10000 ELSE 0
            ELSE IF foF2 >= 4500
            THEN IF season = "summer" THEN -10000
                 ELSE IF season = "winter" THEN 15000 ELSE 0
            ELSE IF season = "summer" THEN -10000
                 ELSE IF season = "winter" THEN 15000 ELSE 0
        h_F2 == IF foF2 < 4500
                THEN Max(260000, Min(360000, h_base + seasonal_offset))
                ELSE IF foF2 < 7000
                THEN Max(280000, Min(320000, h_base + seasonal_offset))
                ELSE Max(240000, Min(330000, h_base + seasonal_offset))
        D_factor == IF foF2 < 5000 THEN 0
                    ELSE IF foF2 < 8000 THEN ((foF2 - 5000) * NS) \div 3000
                    ELSE NS
        F1_factor == IF foF2 < 4500 THEN 0
                     ELSE IF foF2 < 7000 THEN ((foF2 - 4500) * NS) \div 2500
                     ELSE NS
        E_factor == NS \div 2 + Min(NS, (foF2 * NS) \div 12000) \div 2
        H_base == IF foF2 < 4500 THEN 70000
                  ELSE IF foF2 < 7000
                  THEN 70000 - ((((foF2 - 4500) * NS) \div 2500) * 15000) \div NS
                  ELSE 55000
        F2_scale_height == IF season = "winter" THEN (H_base * 12) \div 10
                           ELSE IF season = "summer" THEN (H_base * 8) \div 10
                           ELSE H_base
    IN  [Ne_F2_peak |-> Ne_F2_peak, h_F2 |-> h_F2, F2_scale_height |-> F2_scale_height,
         D_factor |-> D_factor, F1_factor |-> F1_factor, E_factor |-> E_factor,
         Ne_D_peak |-> MulDiv(1500, D_factor, NS),
         Ne_E_peak |-> MulDiv(80000, E_factor, NS),
         Ne_F1_peak |-> MulDiv(600000, F1_factor, NS)]

\* The layer parameters electronDensitySingle derives (lines 1721-1810).
densityParameters(foF2, season) ==
    [Ne_F2_peak |-> NeF2Peak(foF2), h_F2 |-> hF2(foF2, season),
     F2_scale_height |-> F2ScaleHeight(foF2, season),
     D_factor |-> DFactor(foF2), F1_factor |-> F1Factor(foF2),
     E_factor |-> EFactor(foF2),
     Ne_D_peak |-> MulDiv(1500, DFactor(foF2), NS),
     Ne_E_peak |-> MulDiv(80000, EFactor(foF2), NS),
     Ne_F1_peak |-> MulDiv(600000, F1Factor(foF2), NS)]

ionosphereOfLocal(z, foF2_clamped, season) ==
    IF foF2_clamped = NaN THEN NaN
    ELSE makeIonosphereForFoF2(z, foF2_clamped, season)

\* makeTiltedIonosphere2D(z, x, ...) at one altitude (lines 1699-1708).
makeTiltedIonosphere2D(z, x, foF2_at_tx, foF2_at_distance, tilt_distance, season) ==
    ionosphereOfLocal(z, foF2Local(x, foF2_at_tx, foF2_at_distance, tilt_distance),
                      season)

(***************************************************************************)
(* The density callable of the 1D traces.  The callers in the repository     *)
(* pass z => makeIonosphereForFoF2([z], foF2, season)[0] ("profile"); the    *)
(* parameter accepts any function of z, and a uniform sheet of plasma        *)
(* between two altitudes ("slab") stands for the other callables.           *)
(***************************************************************************)
Profile(foF2, season) ==
    [kind |-> "profile", foF2 |-> foF2, season |-> season,
     base |-> 0, top |-> 0, Ne |-> 0]

Slab(base, top, Ne) ==
    [kind |-> "slab", foF2 |-> 0, season |-> "equinox",
     base |-> base, top |-> top, Ne |-> Ne]

ionosphere_func(f, z) ==
    IF f.kind = "profile"
    THEN makeIonosphereForFoF2(z, f.foF2, f.season)
    ELSE IF z >= f.base /\ z <= f.top THEN f.Ne ELSE 0

(***************************************************************************)
(* The calls.  A call is the argument list of one of the four trace          *)
(* functions: freq_MHz in kHz, elevation_deg in whole degrees, the density   *)
(* callable (1D) or foF2_at_tx, foF2_at_distance in kHz, tilt_distance in km *)
(* and season (2D), and max_distance_km in km.                              *)
(***************************************************************************)
Variants == {"path", "abs", "tilt", "tiltabs"}

\* max_distance_km = 10000.0, the default of the four signatures.
DefaultMaxDistance == 10000

Call1D(variant, freq_MHz, elevation_deg, func, max_distance_km) ==
    [variant |-> variant, freq_MHz |-> freq_MHz, elevation_deg |-> elevation_deg,
     ionosphere_func |-> func, foF2_at_tx |-> 0, foF2_at_distance |-> 0,
     tilt_distance |-> 1, season |-> "equinox",
     max_distance_km |-> max_distance_km]

Call2D(variant, freq_MHz, elevation_deg, foF2_at_tx, foF2_at_distance, tilt_distance, max_distance_km, season) ==
    [variant |-> variant, freq_MHz |-> freq_MHz, elevation_deg |-> elevation_deg,
     ionosphere_func |-> Slab(0, 0, 0), foF2_at_tx |-> foF2_at_tx,
     foF2_at_distance |-> foF2_at_distance, tilt_distance |-> tilt_distance,
     season |-> season, max_distance_km |-> max_distance_km]

NoCall == Call1D("path", 1, 1, Slab(0, 0, 0), 0)

(***************************************************************************)
(* The state of one trace: the let-bound variables of the function body,     *)
(* the arrays it fills, and the object it returns.                          *)
(***************************************************************************)
VARIABLES
    pc,                 \* "idle": no call yet; "loop": in the for loop; "done"
    args,               \* the argument list of the call
    r,                  \* radial position, metres
    theta,              \* polar angle, 1/TS rad
    x,                  \* horizontal coordinate of the 2D traces, centimetres
    phi,                \* azimuth of the 2D traces, 1/PS rad
    total_loss_nepers,  \* accumulated loss of the absorption traces, 1/PS
    b,                  \* the ray parameter, 1/NS km
    going_up,           \* the direction flag
    step,               \* the loop counter
    distances,          \* recorded theta * R_E, centimetres
    altitudes,          \* recorded r - R_E, metres
    azimuths,           \* recorded phi (2D), 1/PS rad
    result,             \* the returned object
    last                \* the local constants of the latest iteration

vars == <<pc, args, r, theta, x, phi, total_loss_nepers, b, going_up, step,
          distances, altitudes, azimuths, result, last>>

\* The local variables of a second call in flight at the same time: a record
\* with one field for each of pc .. result above.
VARIABLE peer

\* The latest call of a density function: its arguments and what it computed.
VARIABLE query

\* The page of main.js: the 2D controls of the document, currentState, the
\* 'calculating-2d' element and its style.display, the timers that
\* handle2DUpdate has scheduled and that have not fired, and the state the
\* latest update2DVisualizations drew.
VARIABLE ui

\* The 2D part of currentState as main.js declares it (foF2 in kHz).
currentState2D == [foF2_tx_2d |-> 15000, foF2_dist_2d |-> 4000, tilt_distance |-> 3000, elevation_2d |-> 30, season_2d |-> "equinox"]

\* Nothing has been drawn yet.
NotDrawn == [foF2_tx_2d |-> 0, foF2_dist_2d |-> 0, tilt_distance |-> 0, elevation_2d |-> 0, season_2d |-> ""]

\* The script has been loaded and init has not run.
PageLoading == [page |-> "loading", present |-> FALSE, controls |-> NotDrawn, currentState |-> currentState2D, display |-> "none", timers |-> 0, drawn |-> NotDrawn, threw |-> FALSE]

\* The values the five 2D controls can be set to.
ControlNames == {"foF2_tx_2d", "foF2_dist_2d", "tilt_distance", "elevation_2d", "season_2d"}
ControlValues(name) == CASE name = "foF2_tx_2d" -> {15000, 4000} [] name = "foF2_dist_2d" -> {4000, 6000} [] name = "tilt_distance" -> {3000} [] name = "elevation_2d" -> {30} [] name = "season_2d" -> {"equinox", "winter"}

\* The timers that may be pending at once.
MaxTimers == 2

\* parseFloat and parseInt of the value of a range input whose value is a
\* whole number of the model's unit.
parseFloat(value) == value
parseInt(value) == value

\* What handle2DUpdate reads from the five controls.
controlsRead(controls) == [foF2_tx_2d |-> parseFloat(controls.foF2_tx_2d), foF2_dist_2d |-> parseFloat(controls.foF2_dist_2d), tilt_distance |-> parseInt(controls.tilt_distance), elevation_2d |-> parseInt(controls.elevation_2d), season_2d |-> controls.season_2d]

\* The arguments update2DVisualizations passes to plot2DTilts and
\* plot2DAbsorption: the fields of currentState when it runs.
redrawSkipped(u) == u.drawn
stateDrawn(u) == u.currentState

\* init: the controls take the values of currentState and the 2D charts are
\* drawn once, without a timer. The document has the 'calculating-2d' element
\* or it has not.
init(present) ==
    /\ ui.page = "loading"
    /\ ui' = [ui EXCEPT !.page = "ready", !.present = present, !.controls = ui.currentState, !.drawn = stateDrawn(ui)]

\* The user moves a control ('input' event): the control has a new value and
\* updateSliderDisplays changes nothing of currentState.
Input(name, value) ==
    /\ ui.page = "ready"
    /\ ui.controls[name] # value
    /\ ui' = [ui EXCEPT !.controls[name] = value]

\* handle2DUpdate, the listener of 'change' on the five 2D controls.
handle2DUpdate ==
    /\ ui.page = "ready"
    /\ ui.timers < MaxTimers
    /\ ui' = [ui EXCEPT !.currentState = controlsRead(ui.controls), !.display = IF ui.present THEN "inline-block" ELSE @, !.timers = @ + 1]

\* The callback of setTimeout: the redraw, then the indicator is hidden; the
\* assignment throws a TypeError when the element is absent.
TimerFires ==
    /\ ui.page = "ready"
    /\ ui.timers > 0
    /\ ui' = [ui EXCEPT !.drawn = stateDrawn(ui), !.display = IF ui.present THEN "none" ELSE @, !.threw = IF ui.present THEN @ ELSE TRUE, !.timers = @ - 1]

TwoD(call) == call.variant \in {"tilt", "tiltabs"}
TracksLoss(call) == call.variant \in {"abs", "tiltabs"}

\* psi_0 = elevation_deg * Math.PI / 180.0, in 1/NS rad.
Psi0(elevation_deg) == (elevation_deg * 31416) \div 180

\* The density a 2D closure that has no upper limit would use.
densityInClosureUncut(call, zz, x_dist) ==
    IF zz >= 0
    THEN electronDensity2DSingle(zz, x_dist, call.foF2_at_tx,
             call.foF2_at_distance, call.tilt_distance, call.season)
    ELSE 0

\* The density of the closure getRefractiveIndex(z, x_dist) of the 2D traces:
\* queried for 0 <= z <= 600 km only.
densityInClosure(call, zz, x_dist) ==
    IF zz >= 0 /\ zz <= 600000
    THEN electronDensity2DSingle(zz, x_dist, call.foF2_at_tx,
             call.foF2_at_distance, call.tilt_distance, call.season)
    ELSE 0

\* The density of the 1D traces: the callable is queried for every z >= 0.
densityFromCallable(call, zz) ==
    IF zz >= 0 THEN ionosphere_func(call.ionosphere_func, zz) ELSE 0

\* refractiveIndex(Ne, freq_Hz, collisionFrequency(Math.max(0, z)))
indexWith(call, Ne, zz) ==
    refractiveIndex(Ne, call.freq_MHz, collisionFrequency(Max(0, zz)))

getRefractiveIndex(call, zz, x_dist) ==
    indexWith(call, densityInClosure(call, zz, x_dist), zz)

indexFromCallable(call, zz) == indexWith(call, densityFromCallable(call, zz), zz)

\* The density a pass of the loop at altitude zz and distance x_dist uses.
densityUsed(call, zz, x_dist) ==
    IF TwoD(call) THEN densityInClosure(call, zz, x_dist)
    ELSE densityFromCallable(call, zz)

\* The value of the density function of the call at (zz, x_dist).
densityFunction(call, zz, x_dist) ==
    IF TwoD(call)
    THEN electronDensity2DSingle(zz, x_dist, call.foF2_at_tx,
             call.foF2_at_distance, call.tilt_distance, call.season)
    ELSE ionosphere_func(call.ionosphere_func, zz)

indexAt(call, zz, x_dist) ==
    IF TwoD(call) THEN getRefractiveIndex(call, zz, x_dist)
    ELSE indexFromCallable(call, zz)

\* Re(n) * r, in 1/NS km.
nTimesR(n_real, rr) == MulDiv(rr, n_real, 1000)

\* b = n0 * r * Math.sin(psi_0), in 1/NS km.
rayParameter(n0, rr, psi_0) == MulDiv(nTimesR(n0, rr), MathSin(psi_0), NS)

\* Snell's law taken at the Earth's surface instead of at the ray's radius.
sinAtSurface(bb, n_real, rr) ==
    Sign(bb) * DivNS(Abs(bb), MulDiv(R_E_m, n_real, 1000))

\* sin_psi = b / (n_real * r), in 1/NS.
sinFromRayParameter(bb, n_real, rr) ==
    Sign(bb) * DivNS(Abs(bb), nTimesR(n_real, rr))

\* A near-zero test that already fires below Re n = 0.1.
nearZeroBelowTenth(n_real) == Abs(n_real) < 1000

\* Math.abs(n_real) < 1e-8: the threshold lies below the resolution 1/NS of
\* Re n, so the branch is taken when Re n is 0.
nearZeroIndex(n_real) == Abs(n_real) < 1

\* A clamp onto the limit value 1 itself.
clampSinToOne(sin_psi) == Sign(sin_psi) * NS

\* A clamp that mirrors the ray at the reflection point.
clampSinMirrored(sin_psi) == -Sign(sin_psi) * 9990

\* sin_psi = Math.sign(sin_psi) * 0.999
clampSin(sin_psi) == Sign(sin_psi) * 9990

\* 1 - sin_psi * sin_psi, in 1/(NS * NS), and its Math.sqrt in 1/NS.
cosSquared(sin_psi) == NS * NS - sin_psi * sin_psi
cosPsi(sin_psi) == MathSqrt(cosSquared(sin_psi))

step_km == 1

\* An iteration bound of twice the specified one.
maxStepsDoubled(max_distance_km) == 2 * max_distance_km

\* max_steps = Math.floor(max_distance_km / step_km)
maxSteps(max_distance_km) == max_distance_km \div step_km

\* A step that is never halved.
adaptiveStepWhole(n_real, sin_psi) == step_km * KM

\* adaptive_step, in metres: half a step where Re n < 0.1 or |sin psi| > 0.95.
adaptiveStep(n_real, sin_psi) ==
    IF n_real < 1000 \/ Abs(sin_psi) > 9500
    THEN (step_km * KM) \div 2 ELSE step_km * KM

\* dr = adaptive_step * cos_psi * (going_up ? 1 : -1), in metres.
\* dr without the direction: r += adaptive_step * cos_psi whatever going_up.
radialAdvanceUpward(adaptive_step, cos_psi, up) == (adaptive_step * cos_psi) \div NS

radialAdvance(adaptive_step, cos_psi, up) ==
    ((adaptive_step * cos_psi) \div NS) * (IF up THEN 1 ELSE -1)

\* d_theta = adaptive_step * sin_psi / r, in 1/TS rad.
angularAdvance(adaptive_step, sin_psi, rr) ==
    (adaptive_step * sin_psi * 100) \div (rr \div 100)

\* theta * R_E (and d_theta * R_E), in centimetres.
greatCircle(th) == MulDiv(th, R_E, 1000)

\* Math.abs(d_theta * R_E), in centimetres, rounded as the two recorded
\* distances it lies between are rounded.
horizontalAdvance(th, d_theta) == Abs(greatCircle(th + d_theta) - greatCircle(th))

\* dx_sample, in centimetres.
dxSample(n_real) == IF n_real < 1000 THEN 50000 ELSE 100000

\* (n_plus.real - n_minus.real) / (2 * dx_sample), in 1/NS per km.
centredDifference(call, zz, xx, n_real) ==
    ((getRefractiveIndex(call, zz, xx + dxSample(n_real)).real
      - getRefractiveIndex(call, zz, xx - dxSample(n_real)).real) * 100000)
        \div (2 * dxSample(n_real))

\* (n_plus.real - n_real) / dx_sample, in 1/NS per km.
forwardDifference(call, zz, xx, n_real) ==
    ((getRefractiveIndex(call, zz, xx + dxSample(n_real)).real - n_real) * 100000)
        \div dxSample(n_real)

\* A gradient taken by forward difference at every x > 0.
horizontalGradientForward(call, zz, xx, n_real) ==
    IF xx > 0 THEN forwardDifference(call, zz, xx, n_real) ELSE 0

\* dn_dx of the 2D traces, in 1/NS per km: centred difference beyond one
\* sample length from the transmitter, forward difference before, 0 at x = 0.
horizontalGradient(call, zz, xx, n_real) ==
    LET dx_sample == IF n_real < 1000 THEN 50000 ELSE 100000
        n_plus == getRefractiveIndex(call, zz, xx + dx_sample)
        n_minus == getRefractiveIndex(call, zz, xx - dx_sample)
    IN  IF xx > dx_sample
        THEN ((n_plus.real - n_minus.real) * 100000) \div (2 * dx_sample)
        ELSE IF xx > 0
        THEN ((n_plus.real - n_real) * 100000) \div dx_sample
        ELSE 0

\* smoothing_factor of the azimuth step, in 1/NS: the taper above
\* |sin psi| = 0.9 times the taper below Re n = 0.15, each clamped to [0, 1].
smoothingFactor(n_real, sin_psi) ==
    LET taper == IF Abs(sin_psi) > 9000
                 THEN Max(0, Min(NS, (NS - Abs(sin_psi)) * 10))
                 ELSE NS
    IN  IF n_real < 1500
        THEN MulDiv(taper, Max(0, Min(NS, (n_real - 500) * 10)), NS)
        ELSE taper

\* An azimuth step of the opposite sign: +(1/n) dn_dx / |sin psi| per km.
azimuthAdvanceReversed(n_real, dn_dx, sin_psi, adaptive_step) ==
    IF Abs(sin_psi) > 1000 /\ n_real > 500
    THEN MulDiv(MulDiv(MulDiv((dn_dx * 100000) \div n_real, 100000, Abs(sin_psi)),
                       adaptive_step, 1000),
                IF n_real < 1500 THEN Max(0, Min(NS, (n_real - 500) * 10)) ELSE NS,
                NS)
    ELSE 0

\* dphi of the 2D traces, in 1/PS rad: -(1/n) dn_dx / |sin psi| per km, gated
\* by |sin psi| > 0.1 and Re n > 0.05, tapered above |sin psi| = 0.9 and below
\* Re n = 0.15, times the step.
azimuthAdvance(n_real, dn_dx, sin_psi, adaptive_step) ==
    LET sin_psi_abs == Abs(sin_psi)
        dphi_ds == -MulDiv((dn_dx * 100000) \div n_real, 100000, sin_psi_abs)
    IN  IF sin_psi_abs > 1000 /\ n_real > 500
        THEN MulDiv(MulDiv(dphi_ds, adaptive_step, 1000),
                    smoothingFactor(n_real, sin_psi), NS)
        ELSE 0

\* The loss added by one step, in 1/PS neper: alpha * path_length_m.
lossAdvance(alpha, adaptive_step) == MulDiv(alpha, adaptive_step, 1000)

\* total_loss_dB = total_loss_nepers * 8.686, in 1/1000 dB.
lossInDecibel(nepers) == MulDiv(nepers \div 1000, 8686, 1000)

\* azimuths.map(a => a * 180.0 / Math.PI), in 1/PS degree.
azimuthsInDegrees(az) == [k \in 1..Len(az) |-> MulDiv(az[k], 57296, 1000)]

\* A ground test that does not wait for the eleventh step.
returnsBelowGround(zz, n) == zz < 0

\* The test with a shorter start-up: z < 0 && step > 5.
returnsAfterFive(zz, n) == zz < 0 /\ n > 5

\* The z < 0 && step > 10 test at the head of the loop body.
returnsToGround(zz, n) == zz < 0 /\ n > 10

\* The ceiling of the reflection branch without the going_up test.
softCeilingEitherWay(zz, up) == zz > 600000

\* The z > 600 && going_up test of the reflection branch.
softCeiling(zz, up) == zz > 600000 /\ up

\* A ceiling one hundred kilometres higher.
hardCeilingAt900(zz, up) == zz > 900000 /\ up

\* The z > 800 && going_up test after the reflection branch.
hardCeiling(zz, up) == zz > 800000 /\ up

\* The distance the loop compares with max_distance_km after a step:
\* theta * R_E in the 1D traces, x in the 2D traces.
comparedDistance(call, th, xx) == IF TwoD(call) THEN xx ELSE greatCircle(th)

\* A comparison that takes the centimetres of d for metres.
exceedsMaxDistanceInMetres(d, max_distance_km) == d > max_distance_km * 1000

exceedsMaxDistance(d, max_distance_km) == d > max_distance_km * 100000

(***************************************************************************)
(* One pass of the loop body: every const and let of the body, in order,     *)
(* from the index n_complex at the ray's position and the horizontal         *)
(* gradient dn_dx.  going_up_1 is the flag after the near-zero-index and     *)
(* n^2 <= 0 tests, going_up_2 after the reflection branch.                   *)
(***************************************************************************)
LoopBody(call, n, zz, rr, bb, up, n_complex, dn_dx) ==
    LET n_real == n_complex.real
        n2_real == nSquared(n_complex).real
        alpha == IF TracksLoss(call)
                 THEN alphaCoefficient(call.freq_MHz, n_complex) ELSE 0
        forced == nearZeroIndex(n_real)
        sin_raw == IF forced THEN NS ELSE sinFromRayParameter(bb, n_real, rr)
        going_up_1 == IF forced \/ n2_real <= 0 THEN FALSE ELSE up
        reflects == Abs(sin_raw) >= NS
        going_up_2 == IF reflects THEN FALSE ELSE going_up_1
        sin_psi == IF reflects THEN clampSin(sin_raw) ELSE sin_raw
        cos_psi == cosPsi(sin_psi)
        adaptive_step == adaptiveStep(n_real, sin_psi)
    IN  [z |-> zz, n_real |-> n_real, n2_real |-> n2_real, alpha |-> alpha,
         dn_dx |-> dn_dx, forced |-> forced, sin_raw |-> sin_raw,
         going_up_0 |-> up, going_up_1 |-> going_up_1,
         reflects |-> reflects, going_up_2 |-> going_up_2,
         sin_psi |-> sin_psi, cos_sq |-> cosSquared(sin_psi),
         cos_psi |-> cos_psi, adaptive_step |-> adaptive_step,
         dr |-> radialAdvance(adaptive_step, cos_psi, going_up_2),
         d_theta |-> angularAdvance(adaptive_step, sin_psi, rr),
         dphi |-> IF TwoD(call)
                  THEN azimuthAdvance(n_real, dn_dx, sin_psi, adaptive_step)
                  ELSE 0,
         r |-> rr, step |-> n]

gradientAt(call, zz, xx, n_complex) ==
    IF TwoD(call) THEN horizontalGradient(call, zz, xx, n_complex.real) ELSE 0

IterationAt(n_complex) ==
    LoopBody(args, step, r - R_E_m, r, b, going_up, n_complex,
             gradientAt(args, r - R_E_m, x, n_complex))

\* The pass of the loop body on the current state.
Iteration == IterationAt(indexAt(args, r - R_E_m, x))

(***************************************************************************)
(* The inputs explored.                                                      *)
(***************************************************************************)
Daytime == Profile(12000, "equinox")
Night == Profile(4000, "equinox")

\* Sheets above the 600 km and the 800 km ceilings with X = 0.9 at 7 MHz, and
\* a sheet in the lower atmosphere with X = 1.5 at 7 MHz.
TopsideSlab == Slab(650000, 900000, 547146)
CeilingSlab == Slab(800000, 900000, 547146)
LowSlab == Slab(30000, 60000, 911700)

\* A sheet in the F region with X = 3.3 at 7 MHz: above 150 km the collision
\* frequency is 1 kHz and Re n of an overdense plasma is of the order of
\* 1e-5, below the resolution of the model.
DenseSheet == Slab(200000, 300000, 2000000)

\* The same density above the 600 km ceiling: the ray turns back inside the
\* sheet and comes down from there.
HighSheet == Slab(650000, 900000, 2000000)

\* max_distance_km of the short calls: the range around the number of steps
\* the ray under LowSlab takes to come back to the ground.
ShortHaulMin == 68
ShortHaulMax == 73
ShortHauls == ShortHaulMin..ShortHaulMax

Calls1D ==
    { Call1D(v, c[1], c[2], c[3], DefaultMaxDistance) :
        v \in {"path", "abs"},
        c \in { <<7000, 5, Daytime>>, <<14000, 5, Night>>,
                <<7000, 30, TopsideSlab>>,
                <<-7000, 5, Daytime>>, <<7000, -10, Daytime>>,
                <<7000, 90, Daytime>> } }
    \cup { Call1D(v, 7000, 5, LowSlab, m) : v \in {"path", "abs"}, m \in ShortHauls }
    \cup { Call1D("path", 7000, 30, CeilingSlab, DefaultMaxDistance) }
    \cup { Call1D(v, 7000, 30, DenseSheet, DefaultMaxDistance) : v \in {"path", "abs"} }
    \cup { Call1D("path", 7000, 30, HighSheet, DefaultMaxDistance) }

Calls2D ==
    { Call2D(v, c[1], c[2], c[3], c[4], 1000, DefaultMaxDistance, "equinox") :
        v \in {"tilt", "tiltabs"},
        c \in { <<7000, 5, 12000, 6000>>, <<14000, 5, 4000, 6000>>,
                <<14000, 5, 30000, 30000>>, <<7000, 90, 12000, 6000>> } }
    \cup { Call2D("tilt", 7000, -10, 12000, 6000, 1000, DefaultMaxDistance,
                  "equinox") }
    \cup { Call2D("tilt", 14000, 60, 4000, 6000, 1000, DefaultMaxDistance,
                  "equinox") }
    \cup { Call2D("tilt", f, 30, 15000, 4000, 3000, DefaultMaxDistance, "equinox") :
             f \in {7000, 14000} }
    \cup { Call2D("tilt", 7000, 5, 12000, 12000, 1000, DefaultMaxDistance, "equinox"),
           Call2D("tilt", 14000, 60, 4000, 4000, 1000, DefaultMaxDistance, "equinox") }

Calls == Calls1D \cup Calls2D

NoStep ==
    [exit |-> "none", z |-> 0, n_real |-> 0, n2_real |-> 0, alpha |-> 0,
     dn_dx |-> 0, forced |-> FALSE, sin_raw |-> 0, going_up_0 |-> TRUE,
     going_up_1 |-> TRUE, reflects |-> FALSE, going_up_2 |-> TRUE,
     sin_psi |-> 0, cos_sq |-> 0, cos_psi |-> 0, adaptive_step |-> 0,
     dr |-> 0, d_theta |-> 0, dphi |-> 0, r |-> 0, step |-> 0]

Passed(it, exit) == [exit |-> exit] @@ it

Unset == [status |-> "unset", total_loss_dB |-> 0, azimuths |-> <<>>]

\* A return statement that leaves the status out of the object it builds.
ReturnedWithoutStatus(status, nepers, az) ==
    [status |-> "unset",
     total_loss_dB |-> IF TracksLoss(args) THEN lossInDecibel(nepers) ELSE 0,
     azimuths |-> IF TwoD(args) THEN azimuthsInDegrees(az) ELSE <<>>]

\* A recorder that drops a sample equal to the one before it.
pushIfNew(seq, v) == IF Len(seq) > 0 /\ seq[Len(seq)] = v THEN seq ELSE Append(seq, v)

\* distances.push(v), altitudes.push(v), azimuths.push(v)
push(seq, v) == Append(seq, v)

\* A return statement that reports a ray that has lost energy as 'stops'.
ReturnedAbsorbed(status, nepers, az) ==
    [status |-> IF TracksLoss(args) /\ nepers > 0 THEN "stops" ELSE status,
     total_loss_dB |-> IF TracksLoss(args) THEN lossInDecibel(nepers) ELSE 0,
     azimuths |-> IF TwoD(args) THEN azimuthsInDegrees(az) ELSE <<>>]

\* The object a return statement builds.
Returned(status, nepers, az) ==
    [status |-> status,
     total_loss_dB |-> IF TracksLoss(args) THEN lossInDecibel(nepers) ELSE 0,
     azimuths |-> IF TwoD(args) THEN azimuthsInDegrees(az) ELSE <<>>]

(***************************************************************************)
(* A call as a value: the record of its local variables, and the same        *)
(* function body as a map from that record to the next one.  Every variable  *)
(* the body reads or writes is declared with let or const inside the         *)
(* function (lines 1943-1964, 2187-2219), so the record is all it touches.   *)
(***************************************************************************)
PeerIdle ==
    [pc |-> "idle", args |-> NoCall, r |-> R_E_m, theta |-> 0, x |-> 0, phi |-> 0,
     total_loss_nepers |-> 0, b |-> 0, going_up |-> TRUE, step |-> 0,
     distances |-> <<>>, altitudes |-> <<>>, azimuths |-> <<>>, result |-> Unset]

\* The record after the statements before the for loop.
Launched(call) ==
    [pc |-> "loop", args |-> call, r |-> R_E_m, theta |-> 0, x |-> 0, phi |-> 0,
     total_loss_nepers |-> 0,
     b |-> rayParameter(indexAt(call, 0, 0).real, R_E_m, Psi0(call.elevation_deg)),
     going_up |-> TRUE, step |-> 0, distances |-> <<0>>, altitudes |-> <<0>>,
     azimuths |-> IF TwoD(call) THEN <<0>> ELSE <<>>, result |-> Unset]

\* The object a return statement of the call builds.
ReturnedFor(call, status, nepers, az) ==
    [status |-> status,
     total_loss_dB |-> IF TracksLoss(call) THEN lossInDecibel(nepers) ELSE 0,
     azimuths |-> IF TwoD(call) THEN azimuthsInDegrees(az) ELSE <<>>]

\* A direction flag declared outside the function: every call reads the one
\* flag.
sharedDirection(t) == going_up

\* let going_up = true inside the function: the flag of the call itself.
ownDirection(t) == t.going_up

\* The pass of the loop body on the record t.
LoopBodyOf(t, n_complex) ==
    LoopBody(t.args, t.step, t.r - R_E_m, t.r, t.b, ownDirection(t), n_complex,
             gradientAt(t.args, t.r - R_E_m, t.x, n_complex))

\* The record after the pass it of the loop body.
PassOf(t, it) ==
    IF it.reflects /\ softCeiling(it.z, it.going_up_1)
    THEN [t EXCEPT !.pc = "done", !.going_up = it.going_up_1,
                   !.result = ReturnedFor(t.args, "escapes", t.total_loss_nepers,
                                          t.azimuths)]
    ELSE IF hardCeiling(it.z, it.going_up_2)
    THEN [t EXCEPT !.pc = "done", !.going_up = it.going_up_2,
                   !.result = ReturnedFor(t.args, "escapes", t.total_loss_nepers,
                                          t.azimuths)]
    ELSE LET loss == t.total_loss_nepers + lossAdvance(it.alpha, it.adaptive_step)
             th == t.theta + it.d_theta
             xx == IF TwoD(t.args) THEN t.x + horizontalAdvance(t.theta, it.d_theta)
                   ELSE t.x
             az == IF TwoD(t.args) THEN push(t.azimuths, t.phi + it.dphi)
                   ELSE t.azimuths
             moved == [t EXCEPT !.going_up = it.going_up_2,
                                !.total_loss_nepers = loss,
                                !.r = t.r + it.dr, !.theta = th, !.x = xx,
                                !.phi = t.phi + it.dphi,
                                !.distances = push(t.distances, greatCircle(th)),
                                !.altitudes = push(t.altitudes, t.r + it.dr - R_E_m),
                                !.azimuths = az]
         IN  IF exceedsMaxDistance(comparedDistance(t.args, th, xx),
                                   t.args.max_distance_km)
             THEN [moved EXCEPT !.pc = "done",
                                !.result = ReturnedFor(t.args, "stops", loss, az)]
             ELSE [moved EXCEPT !.step = t.step + 1]

\* One evaluation of the loop condition and, if it holds, one pass of the body.
TraceStep(t) ==
    IF ~(t.step < maxSteps(t.args.max_distance_km))
    THEN [t EXCEPT !.pc = "done",
                   !.result = ReturnedFor(t.args, "stops", t.total_loss_nepers,
                                          t.azimuths)]
    ELSE IF returnsToGround(t.r - R_E_m, t.step)
    THEN [t EXCEPT !.pc = "done",
                   !.result = ReturnedFor(t.args, "returns", t.total_loss_nepers,
                                          t.azimuths)]
    ELSE PassOf(t, LoopBodyOf(t, indexAt(t.args, t.r - R_E_m, t.x)))

\* The call run from its first statement to its return statement.
\* (Evaluated a hundred evaluations of the loop condition at a time, which
\* keeps the nesting of the evaluation shallow.)
RECURSIVE RunFor(_, _)
RunFor(t, n) == IF n = 0 \/ t.pc = "done" THEN t ELSE RunFor(TraceStep(t), n - 1)

RECURSIVE RunToReturn(_)
RunToReturn(t) == IF t.pc = "done" THEN t ELSE RunToReturn(RunFor(t, 100))

\* No density function has been called.
NoQuery ==
    [fn |-> "none", z |-> 0, x |-> 0, foF2_at_tx |-> 0, foF2_at_distance |-> 0,
     tilt_distance |-> 1, season |-> "equinox", foF2 |-> 0,
     p |-> densityParameters(0, "equinox"), layers |-> <<0, 0, 0, 0>>, Ne |-> 0]

Init ==
    /\ pc = "idle"
    /\ args = NoCall
    /\ r = R_E_m
    /\ theta = 0
    /\ x = 0
    /\ phi = 0
    /\ total_loss_nepers = 0
    /\ b = 0
    /\ going_up = TRUE
    /\ step = 0
    /\ distances = <<>>
    /\ altitudes = <<>>
    /\ azimuths = <<>>
    /\ result = Unset
    /\ last = NoStep
    /\ peer = PeerIdle
    /\ query = NoQuery
    /\ ui = PageLoading

InLoop == pc = "loop"

\* The function is entered: everything before the for statement.
Launch(call) ==
    /\ pc = "idle"
    /\ pc' = "loop"
    /\ args' = call
    /\ r' = R_E_m
    /\ theta' = 0
    /\ x' = 0
    /\ phi' = 0
    /\ total_loss_nepers' = 0
    /\ b' = rayParameter(indexAt(call, 0, 0).real, R_E_m, Psi0(call.elevation_deg))
    /\ going_up' = TRUE
    /\ step' = 0
    /\ distances' = <<0>>
    /\ altitudes' = <<0>>
    /\ azimuths' = IF TwoD(call) THEN <<0>> ELSE <<>>
    /\ UNCHANGED <<result, last>>

\* step < max_steps fails: the return after the loop.
LoopExhausted ==
    /\ InLoop
    /\ ~(step < maxSteps(args.max_distance_km))
    /\ pc' = "done"
    /\ result' = Returned("stops", total_loss_nepers, azimuths)
    /\ UNCHANGED <<args, r, theta, x, phi, total_loss_nepers, b, going_up, step,
                   distances, altitudes, azimuths, last>>

\* The loop body returns at its head: the ray is back on the ground.
ReturnToGround ==
    /\ InLoop
    /\ step < maxSteps(args.max_distance_km)
    /\ returnsToGround(r - R_E_m, step)
    /\ pc' = "done"
    /\ result' = Returned("returns", total_loss_nepers, azimuths)
    /\ last' = [NoStep EXCEPT !.exit = "returns", !.z = r - R_E_m,
                              !.going_up_0 = going_up, !.r = r, !.step = step]
    /\ UNCHANGED <<args, r, theta, x, phi, total_loss_nepers, b, going_up, step,
                   distances, altitudes, azimuths>>

\* The loop body returns in the reflection branch: |sin psi| >= 1 above 600 km
\* while going up.
SoftEscape ==
    /\ InLoop
    /\ step < maxSteps(args.max_distance_km)
    /\ ~returnsToGround(r - R_E_m, step)
    /\ \E it \in {Iteration} :
        /\ it.reflects
        /\ softCeiling(it.z, it.going_up_1)
        /\ pc' = "done"
        /\ going_up' = it.going_up_1
        /\ result' = Returned("escapes", total_loss_nepers, azimuths)
        /\ last' = Passed(it, "soft")
        /\ UNCHANGED <<args, r, theta, x, phi, total_loss_nepers, b, step,
                       distances, altitudes, azimuths>>

\* The loop body returns after the reflection branch: going up above 800 km.
HardEscape ==
    /\ InLoop
    /\ step < maxSteps(args.max_distance_km)
    /\ ~returnsToGround(r - R_E_m, step)
    /\ \E it \in {Iteration} :
        /\ ~(it.reflects /\ softCeiling(it.z, it.going_up_1))
        /\ hardCeiling(it.z, it.going_up_2)
        /\ pc' = "done"
        /\ going_up' = it.going_up_2
        /\ result' = Returned("escapes", total_loss_nepers, azimuths)
        /\ last' = Passed(it, "hard")
        /\ UNCHANGED <<args, r, theta, x, phi, total_loss_nepers, b, step,
                       distances, altitudes, azimuths>>

\* The loop body runs to its end: the ray is advanced and recorded, and the
\* distance is compared with max_distance_km.
Advance ==
    /\ InLoop
    /\ step < maxSteps(args.max_distance_km)
    /\ ~returnsToGround(r - R_E_m, step)
    /\ \E it \in {Iteration} :
        LET loss == total_loss_nepers + lossAdvance(it.alpha, it.adaptive_step)
            th == theta + it.d_theta
            xx == IF TwoD(args) THEN x + horizontalAdvance(theta, it.d_theta) ELSE x
            az == IF TwoD(args) THEN push(azimuths, phi + it.dphi) ELSE azimuths
        IN  /\ ~(it.reflects /\ softCeiling(it.z, it.going_up_1))
            /\ ~hardCeiling(it.z, it.going_up_2)
            /\ going_up' = it.going_up_2
            /\ total_loss_nepers' = loss
            /\ r' = r + it.dr
            /\ theta' = th
            /\ x' = xx
            /\ phi' = phi + it.dphi
            /\ distances' = push(distances, greatCircle(th))
            /\ altitudes' = push(altitudes, r + it.dr - R_E_m)
            /\ azimuths' = az
            /\ IF exceedsMaxDistance(comparedDistance(args, th, xx),
                                     args.max_distance_km)
               THEN /\ pc' = "done"
                    /\ result' = Returned("stops", loss, az)
                    /\ step' = step
                    /\ last' = Passed(it, "distance")
               ELSE /\ pc' = "loop"
                    /\ result' = result
                    /\ step' = step + 1
                    /\ last' = Passed(it, "advance")
            /\ UNCHANGED <<args, b>>

\* One call at a time: no second call is in flight.
Next ==
    \/ \E call \in Calls : Launch(call) /\ UNCHANGED <<peer, query, ui>>
    \/ LoopExhausted /\ UNCHANGED <<peer, query, ui>>
    \/ ReturnToGround /\ UNCHANGED <<peer, query, ui>>
    \/ SoftEscape /\ UNCHANGED <<peer, query, ui>>
    \/ HardEscape /\ UNCHANGED <<peer, query, ui>>
    \/ Advance /\ UNCHANGED <<peer, query, ui>>

Spec == Init /\ [][Next]_vars

(***************************************************************************)
(* Two calls in flight: the steps of the call held in the variables and of   *)
(* the call held in peer, interleaved in every order.                       *)
(***************************************************************************)
\* The calls of the second worker: two traces of a dozen steps.
PeerCalls ==
    { Call1D("abs", 7000, 90, Daytime, DefaultMaxDistance),
      Call2D("tiltabs", 7000, 90, 12000, 6000, 1000, DefaultMaxDistance, "equinox") }

\* The calls of the first worker: the same two, and one that runs out of
\* iterations, one that leaves through the 600 km test and one that leaves
\* through the 800 km test.
OwnCalls ==
    PeerCalls
    \cup { Call1D("abs", 7000, 5, LowSlab, ShortHaulMin),
           Call1D("path", 7000, 30, TopsideSlab, DefaultMaxDistance),
           Call1D("path", 14000, 5, Night, DefaultMaxDistance) }

PeerLaunch(call) ==
    /\ peer.pc = "idle"
    /\ peer' = Launched(call)
    /\ UNCHANGED <<vars, query, ui>>

PeerStep ==
    /\ peer.pc = "loop"
    /\ peer' = TraceStep(peer)
    /\ UNCHANGED <<vars, query, ui>>

PairNext ==
    \/ \E call \in OwnCalls : Launch(call) /\ UNCHANGED <<peer, query, ui>>
    \/ LoopExhausted /\ UNCHANGED <<peer, query, ui>>
    \/ ReturnToGround /\ UNCHANGED <<peer, query, ui>>
    \/ SoftEscape /\ UNCHANGED <<peer, query, ui>>
    \/ HardEscape /\ UNCHANGED <<peer, query, ui>>
    \/ Advance /\ UNCHANGED <<peer, query, ui>>
    \/ \E call \in PeerCalls : PeerLaunch(call)
    \/ PeerStep

PairSpec == Init /\ [][PairNext]_<<vars, peer, query>>

(***************************************************************************)
(* The density functions called on their own (visualizations.js 1546-1842):  *)
(* altitudes in metres, foF2 in kHz, x in centimetres, tilt_distance in km.  *)
(***************************************************************************)
\* Altitudes at the layer peaks, between them, at the ground and above the
\* 600 km limit of the 2D traces.
Altitudes == {0, 60000, 75000, 110000, 190000, 270000, 300000, 650000}

\* foF2 on both sides of every regime boundary (4.5, 5, 7, 8, 12 MHz), at the
\* limits 2 and 25 MHz of the 2D clamp, outside them, and on both sides of
\* -12 MHz, where E_factor = 0.5 + 0.5 * foF2 / 12 changes sign.
FoF2Step == 1
Boundaries == {4500, 5000, 7000, 8000, 12000}
FoF2Values ==
    {-20000, -12000 - FoF2Step, -12000, 0, 2000, 3000, 15000, 25000, 30000}
    \cup Boundaries \cup { f - FoF2Step : f \in Boundaries }

\* The three seasons, and three strings that are none of them.
Seasons == {"winter", "equinox", "summer"}
OtherSeasons == {"spring", "Winter", ""}

\* makeIonosphereForFoF2([z], foF2, season)[0]
QueryIonosphere(z, foF2, season) ==
    /\ query.fn = "none"
    /\ query' = [fn |-> "makeIonosphereForFoF2", z |-> z, x |-> 0,
                 foF2_at_tx |-> foF2, foF2_at_distance |-> foF2,
                 tilt_distance |-> 1, season |-> season, foF2 |-> foF2,
                 p |-> makeIonosphereParameters(foF2, season),
                 layers |-> chapmanLayers(z, makeIonosphereParameters(foF2, season)),
                 Ne |-> makeIonosphereForFoF2(z, foF2, season)]
    /\ UNCHANGED <<vars, peer, ui>>

\* electronDensitySingle(z, foF2, season)
QueryDensity(z, foF2, season) ==
    /\ query.fn = "none"
    /\ query' = [fn |-> "electronDensitySingle", z |-> z, x |-> 0,
                 foF2_at_tx |-> foF2, foF2_at_distance |-> foF2,
                 tilt_distance |-> 1, season |-> season, foF2 |-> foF2,
                 p |-> densityParameters(foF2, season),
                 layers |-> chapmanLayers(z, densityParameters(foF2, season)),
                 Ne |-> electronDensitySingle(z, foF2, season)]
    /\ UNCHANGED <<vars, peer, ui>>

\* Horizontal distances: the transmitter, 500 km and 3000 km.
Distances2D == {0, 50000000, 300000000}
FoF2Ends == {1000, 4000, 15000, 30000}
TiltDistances == {0, 1000, 3000}
Altitudes2D == {110000, 300000}
Seasons2D == {"equinox", "winter", "spring"}

\* The layer parameters of a NaN foF2.
NaNParameters ==
    [Ne_F2_peak |-> NaN, h_F2 |-> NaN, F2_scale_height |-> NaN, D_factor |-> NaN,
     F1_factor |-> NaN, E_factor |-> NaN, Ne_D_peak |-> NaN, Ne_E_peak |-> NaN,
     Ne_F1_peak |-> NaN]

\* electronDensity2DSingle(z, x, foF2_at_tx, foF2_at_distance, tilt_distance, season)
QueryDensity2D(z, xx, tx, ref, tilt, season) ==
    /\ query.fn = "none"
    /\ \E f \in {foF2Local(xx, tx, ref, tilt)} :
          query' = [fn |-> "electronDensity2DSingle", z |-> z, x |-> xx,
                    foF2_at_tx |-> tx, foF2_at_distance |-> ref,
                    tilt_distance |-> tilt, season |-> season, foF2 |-> f,
                    p |-> IF f = NaN THEN NaNParameters
                          ELSE densityParameters(f, season),
                    layers |-> IF f = NaN THEN <<NaN, NaN, NaN, NaN>>
                               ELSE chapmanLayers(z, densityParameters(f, season)),
                    Ne |-> electronDensity2DSingle(z, xx, tx, ref, tilt, season)]
    /\ UNCHANGED <<vars, peer, ui>>

\* makeTiltedIonosphere2D([z], x, foF2_at_tx, foF2_at_distance, tilt_distance, season)[0]
QueryTilted(z, xx, tx, ref, tilt, season) ==
    /\ query.fn = "none"
    /\ \E f \in {foF2Local(xx, tx, ref, tilt)} :
          query' = [fn |-> "makeTiltedIonosphere2D", z |-> z, x |-> xx,
                    foF2_at_tx |-> tx, foF2_at_distance |-> ref,
                    tilt_distance |-> tilt, season |-> season, foF2 |-> f,
                    p |-> IF f = NaN THEN NaNParameters
                          ELSE makeIonosphereParameters(f, season),
                    layers |-> IF f = NaN THEN <<NaN, NaN, NaN, NaN>>
                               ELSE chapmanLayers(z, makeIonosphereParameters(f, season)),
                    Ne |-> makeTiltedIonosphere2D(z, xx, tx, ref, tilt, season)]
    /\ UNCHANGED <<vars, peer, ui>>

\* plotElectronDensity(foF2, containerId, season) at one altitude of its grid:
\* the Total curve is makeIonosphereForFoF2, the four layer curves are
\* computed again; all five are divided by 1e9, a change of unit.
PlotDensity(z, foF2, season) ==
    /\ query.fn = "none"
    /\ query' = [fn |-> "plotElectronDensity", z |-> z, x |-> 0,
                 foF2_at_tx |-> foF2, foF2_at_distance |-> foF2,
                 tilt_distance |-> 1, season |-> season, foF2 |-> foF2,
                 p |-> plotLayerParameters(foF2, season),
                 layers |-> chapmanLayers(z, plotLayerParameters(foF2, season)),
                 Ne |-> makeIonosphereForFoF2(z, foF2, season)]
    /\ UNCHANGED <<vars, peer, ui>>

DensityNext ==
    \/ \E z \in Altitudes2D, xx \in Distances2D, tx \in FoF2Ends, ref \in FoF2Ends,
          tilt \in TiltDistances, season \in Seasons2D :
          QueryDensity2D(z, xx, tx, ref, tilt, season)
    \/ \E z \in Altitudes2D, xx \in Distances2D, tx \in FoF2Ends, ref \in FoF2Ends,
          tilt \in TiltDistances, season \in Seasons2D :
          QueryTilted(z, xx, tx, ref, tilt, season)
    \/ \E z \in Altitudes, foF2 \in FoF2Values, season \in Seasons \cup OtherSeasons :
          QueryIonosphere(z, foF2, season)
    \/ \E z \in Altitudes, foF2 \in FoF2Values, season \in Seasons \cup OtherSeasons :
          QueryDensity(z, foF2, season)
    \/ \E z \in Altitudes, foF2 \in FoF2Values, season \in Seasons \cup OtherSeasons :
          PlotDensity(z, foF2, season)

DensitySpec == Init /\ [][DensityNext]_<<vars, peer, query>>

UINext ==
    \/ \E present \in BOOLEAN : init(present) /\ UNCHANGED <<vars, peer, query>>
    \/ \E name \in ControlNames : \E value \in ControlValues(name) : Input(name, value) /\ UNCHANGED <<vars, peer, query>>
    \/ handle2DUpdate /\ UNCHANGED <<vars, peer, query>>
    \/ TimerFires /\ UNCHANGED <<vars, peer, query>>

UISpec == Init /\ [][UINext]_<<vars, peer, query, ui>>

\* The layer parameters and the density the function fn computes for a local
\* foF2.
ParametersOf(fn, foF2, season) ==
    IF foF2 = NaN THEN NaNParameters
    ELSE IF fn \in {"makeIonosphereForFoF2", "makeTiltedIonosphere2D"}
    THEN makeIonosphereParameters(foF2, season)
    ELSE densityParameters(foF2, season)

DensityOf(fn, z, foF2, season) ==
    IF fn \in {"makeIonosphereForFoF2", "makeTiltedIonosphere2D"}
    THEN ionosphereOfLocal(z, foF2, season)
    ELSE densityOfLocal(z, foF2, season)

\* The local variables of the call held in the variables, as a record.
Own ==
    [pc |-> pc, args |-> args, r |-> r, theta |-> theta, x |-> x, phi |-> phi,
     total_loss_nepers |-> total_loss_nepers, b |-> b, going_up |-> going_up,
     step |-> step, distances |-> distances, altitudes |-> altitudes,
     azimuths |-> azimuths, result |-> result]

(***************************************************************************)
(* Properties.                                                               *)
(***************************************************************************)
Statuses == {"returns", "escapes", "stops"}

Last(seq) == seq[Len(seq)]

\* The call respects the documented input ranges.
ValidRay(call) ==
    call.freq_MHz > 0 /\ call.elevation_deg > 0 /\ call.elevation_deg < 90

ValidFoF2(call) ==
    TwoD(call) =>
        /\ call.foF2_at_tx >= 2000 /\ call.foF2_at_tx <= 25000
        /\ call.foF2_at_distance >= 2000 /\ call.foF2_at_distance <= 25000

\* The latest iteration ran to the end of the loop body.
Advanced == last.exit \in {"advance", "distance"}

\* C1: every return statement of the four trace functions sets status to one
\* of 'returns', 'escapes', 'stops'; before a return the status is unset; and
\* after a return nothing changes any more.
C1_StatusOneOfThree ==
    [][ /\ pc = "done" => UNCHANGED vars
        /\ pc' = "done" => result'.status \in Statuses
        /\ pc' # "done" => result' = Unset ]_vars

C1_Witness ==
    /\ pc = "done"
    /\ args.variant = "tiltabs"
    /\ result.status = "escapes"
    /\ Len(distances) > 800

\* C2: the loop counter never exceeds floor(max_distance_km / 1); every pass
\* of the loop either returns or adds one to the counter, so a trace returns
\* after at most that many passes; and a trace whose loop runs out of
\* iterations returns 'stops'.
C2_Terminates ==
    [][ /\ pc' # "idle" => step' <= args'.max_distance_km
        /\ pc = "loop" => \/ pc' = "done" /\ step' = step
                          \/ pc' = "loop" /\ step' = step + 1
        /\ (pc = "loop" /\ step >= args.max_distance_km) =>
              pc' = "done" /\ result'.status = "stops"
        /\ (pc' = "done" /\ last'.exit = "advance") =>
              step' = args'.max_distance_km /\ result'.status = "stops" ]_vars

C2_Witness ==
    /\ pc = "done"
    /\ last.exit = "advance"
    /\ step = args.max_distance_km
    /\ result.status = "stops"

\* C3: b is n0 * R_E * sin(psi_0) from the launch on and is never assigned
\* again; at every step whose sin psi is neither forced to 1 nor clamped to
\* 0.999, Re(n) * r * sin psi equals b to within the resolution 1/NS of sin psi.
C3_RayParameterConserved ==
    [][ /\ pc' # "idle" =>
              b' = MulDiv(indexAt(args', 0, 0).real * R_E,
                          MathSin(Psi0(args'.elevation_deg)), NS)
        /\ pc # "idle" => b' = b
        /\ (pc' # "idle" /\ last'.exit \notin {"none", "returns"}
              /\ ~last'.forced /\ ~last'.reflects) =>
              Abs(MulDiv(MulDiv(last'.r, last'.n_real, 1000), last'.sin_psi, NS) - b')
                 <= MulDiv(last'.r, last'.n_real, 1000) \div NS + 2 ]_vars

C3_Witness ==
    /\ last.exit = "advance"
    /\ ~last.forced /\ ~last.reflects
    /\ last.z > 150000
    /\ last.n_real < 9000
    /\ last.sin_psi > 0

\* C4: for an elevation in (0, 90) and a frequency > 0 every step's angular
\* advance is >= 0, at clamped reflection steps too, and the recorded
\* distances never decrease.
C4_DistancesNonDecreasing ==
    (pc # "idle" /\ ValidRay(args)) =>
        /\ Advanced => last.d_theta >= 0
        /\ \A k \in 1..(Len(distances) - 1) : distances[k] <= distances[k + 1]

C4_Witness ==
    /\ ValidRay(args)
    /\ last.exit = "advance"
    /\ last.reflects
    /\ last.d_theta > 0
    /\ ~going_up
    /\ Len(distances) > 100

\* C5: in the absorption variants the accumulated loss starts at 0, no step
\* subtracts from it, and the total_loss_dB of every returned object is >= 0.
C5_LossNeverDecreases ==
    (pc # "idle" /\ TracksLoss(args)) =>
        /\ last.exit = "none" => total_loss_nepers = 0
        /\ Advanced => lossAdvance(last.alpha, last.adaptive_step) >= 0
        /\ total_loss_nepers >= 0
        /\ pc = "done" => result.total_loss_dB >= 0

\* C6, as claimed: a returned trace whose ray is below the ground after more
\* than 10 steps has status 'returns', and no trace returns 'returns' within
\* its first 10 steps.
C6_BelowGroundMeansReturns ==
    /\ (pc = "done" /\ r - R_E_m < 0 /\ step > 10) => result.status = "returns"
    /\ (pc = "done" /\ result.status = "returns") => step > 10

\* C6, amended: a pass of the loop that starts with z < 0 after more than 10
\* steps returns 'returns'; 'returns' is returned by such a pass only; a ray
\* that is below the ground when the loop has run out of iterations gets
\* 'stops'.
C6_ReturnsAtLoopHead ==
    [][ /\ (pc = "loop" /\ step < args.max_distance_km
              /\ r - R_E_m < 0 /\ step > 10) =>
              pc' = "done" /\ result'.status = "returns"
        /\ (pc' = "done" /\ result'.status = "returns") =>
              /\ r' - R_E_m < 0
              /\ step' > 10
              /\ step' < args'.max_distance_km
        /\ (pc' = "done" /\ r' - R_E_m < 0 /\ step' > 10
              /\ result'.status # "returns") =>
              result'.status = "stops" /\ step' = args'.max_distance_km ]_vars

C6_Witness ==
    /\ pc = "done"
    /\ result.status = "returns"
    /\ step = 11
    /\ altitudes[2] < 0

\* C7: at a step with |sin psi| >= 1 the trace returns 'escapes' when the ray
\* is going up above 600 km; otherwise the step is taken with the direction
\* set to descending and sin psi replaced by sign(sin psi) * 0.999; the
\* argument of the square root that gives cos psi is never negative.
C7_ReflectionOrEscape ==
    last.exit \notin {"none", "returns"} =>
        /\ (last.reflects /\ last.z > 600000 /\ last.going_up_1) =>
              last.exit = "soft" /\ pc = "done" /\ result.status = "escapes"
        /\ (last.reflects /\ ~(last.z > 600000 /\ last.going_up_1)) =>
              /\ Advanced
              /\ ~last.going_up_2
              /\ ~going_up
              /\ last.sin_psi = Sign(last.sin_raw) * 9990
              /\ last.dr < 0
        /\ last.exit = "soft" => last.reflects
        /\ Advanced => /\ last.cos_sq >= 0
                       /\ last.cos_psi * last.cos_psi <= last.cos_sq
                       /\ Abs(last.sin_psi) < NS

C7_Witness ==
    /\ last.exit = "advance"
    /\ last.reflects
    /\ last.sin_raw > NS
    /\ last.going_up_1
    /\ last.z > 100000
    /\ ~going_up

\* C8: a pass of the loop that finds the ray going up above 800 km returns
\* 'escapes', whatever sin psi is; no step is taken from there; and no
\* recorded altitude is more than one step above 800 km.
C8_HardCeiling ==
    /\ (last.exit \notin {"none", "returns"} /\ last.z > 800000
          /\ last.going_up_1) =>
          /\ last.exit \in {"soft", "hard"}
          /\ pc = "done"
          /\ result.status = "escapes"
    /\ Advanced => ~(last.z > 800000 /\ last.going_up_2)
    /\ last.exit = "hard" => last.z > 800000 /\ result.status = "escapes"
    /\ \A k \in 1..Len(altitudes) : altitudes[k] <= 800000 + step_km * KM

C8_Witness ==
    /\ last.exit = "hard"
    /\ last.z > 800000
    /\ ~last.reflects
    /\ result.status = "escapes"

C10_InvalidInputFailsFast ==
    (pc # "idle" /\ ~(ValidRay(args) /\ ValidFoF2(args))) =>
        /\ last.exit = "none"
        /\ Len(distances) = 1
        /\ result.status \notin Statuses

C13_UnknownSeasonIsEquinox ==
    (query.fn # "none" /\ query.season \notin Seasons) =>
        /\ query.p.h_F2 = ParametersOf(query.fn, query.foF2, "equinox").h_F2
        /\ query.p.F2_scale_height
              = ParametersOf(query.fn, query.foF2, "equinox").F2_scale_height
        /\ query.p = ParametersOf(query.fn, query.foF2, "equinox")
        /\ query.Ne = DensityOf(query.fn, query.z, query.foF2, "equinox")

C13_Witness ==
    /\ query.fn = "electronDensity2DSingle"
    /\ query.season = "spring"
    /\ query.foF2 = 15000
    /\ query.z = 300000
    /\ query.Ne > 0
    /\ query.p.h_F2 # ParametersOf(query.fn, query.foF2, "winter").h_F2
    /\ query.Ne # DensityOf(query.fn, query.z, query.foF2, "winter")

\* The total is the sum of the four Chapman layers: D at 75 km with H = 8 km,
\* E at 110 km with 15 km, F1 at 190 km with 30 km, F2 at h_F2 with the F2
\* scale height.
SumOfFourLayers ==
    /\ query.layers = <<chapmanLayerSingle(query.z, query.p.Ne_D_peak, 75000, 8000),
                        chapmanLayerSingle(query.z, query.p.Ne_E_peak, 110000, 15000),
                        chapmanLayerSingle(query.z, query.p.Ne_F1_peak, 190000, 30000),
                        chapmanLayerSingle(query.z, query.p.Ne_F2_peak, query.p.h_F2,
                                           query.p.F2_scale_height)>>
    /\ query.Ne = query.layers[1] + query.layers[2] + query.layers[3] + query.layers[4]

NonNegativeDensity ==
    /\ query.Ne >= 0
    /\ query.p.Ne_D_peak >= 0 /\ query.p.Ne_E_peak >= 0
    /\ query.p.Ne_F1_peak >= 0 /\ query.p.Ne_F2_peak >= 0

\* C14, as claimed: for every altitude, foF2 and season the density is >= 0
\* and is exactly the sum of the four Chapman layers, whose peak densities
\* are >= 0.
C14_DensityIsSumOfLayers ==
    (query.fn # "none" /\ query.foF2 # NaN) => SumOfFourLayers /\ NonNegativeDensity

\* C14, amended: for every altitude, foF2 and season the density is exactly
\* the sum of the four Chapman layers; for foF2 >= -12 MHz the density and
\* the four peak densities are >= 0; for foF2 < -12 MHz the E peak is
\* negative.
C14_SumOfLayersNonNegativeAboveMinus12 ==
    (query.fn # "none" /\ query.foF2 # NaN) =>
        /\ SumOfFourLayers
        /\ query.foF2 >= -12000 => NonNegativeDensity
        /\ query.foF2 < -12000 => query.p.Ne_E_peak < 0

C14_Witness ==
    /\ query.fn = "electronDensitySingle"
    /\ query.foF2 = 12000
    /\ query.z = 190000
    /\ query.layers[2] > 0 /\ query.layers[3] > 0 /\ query.layers[4] > 0
    /\ query.Ne > query.layers[4]

\* C15: for every number foF2 and every season the base formula, the
\* seasonal offset and the re-clamp take the same regime, and the final h_F2
\* lies in [260, 360] km for foF2 < 4.5, in [280, 320] km for
\* 4.5 <= foF2 < 7 and in [240, 330] km for foF2 >= 7.
C15_PeakAltitudeInRegimeBounds ==
    (query.fn # "none" /\ query.foF2 # NaN) =>
        /\ baseRegime(query.foF2) = offsetRegime(query.foF2)
        /\ baseRegime(query.foF2) = clampRegime(query.foF2)
        /\ query.foF2 < 4500 => baseRegime(query.foF2) = "night"
        /\ (query.foF2 >= 4500 /\ query.foF2 < 7000)
              => baseRegime(query.foF2) = "transition"
        /\ query.foF2 >= 7000 => baseRegime(query.foF2) = "day"
        /\ query.p.h_F2 >= regimeBounds(baseRegime(query.foF2))[1]
        /\ query.p.h_F2 <= regimeBounds(baseRegime(query.foF2))[2]

\* A winter night whose base altitude 350 km plus 15 km is re-clamped to 360.
C15_Witness ==
    /\ query.fn = "electronDensitySingle"
    /\ query.season = "winter"
    /\ query.foF2 = 2000
    /\ hF2Base(query.foF2) + seasonalOffset(query.foF2, query.season) = 365000
    /\ query.p.h_F2 = 360000

\* The largest change of a layer parameter over one step of foF2 that a
\* continuous piecewise-linear formula of the model allows: 36 m of h_F2 per
\* kHz at night, 6 m of scale height and 1 / 2500 of a factor per kHz in the
\* transition.
SmallChange(at, under, perStep) == Abs(at - under) <= perStep * FoF2Step

\* C16: the layer parameters and the density just below a regime boundary
\* (4.5, 5, 7, 8, 12 MHz) are those at the boundary, up to the slope of the
\* formulas: a small change of foF2 produces no jump.
C16_ContinuousInFoF2 ==
    (query.fn \in {"makeIonosphereForFoF2", "electronDensitySingle"}
     /\ query.foF2 \in Boundaries) =>
        \E below \in {ParametersOf(query.fn, query.foF2 - FoF2Step, query.season)} :
            /\ SmallChange(query.p.h_F2, below.h_F2, 40)
            /\ SmallChange(query.p.F2_scale_height, below.F2_scale_height, 10)
            /\ SmallChange(query.p.D_factor, below.D_factor, 5)
            /\ SmallChange(query.p.F1_factor, below.F1_factor, 5)
            /\ SmallChange(query.p.E_factor, below.E_factor, 5)
            /\ Abs(query.Ne - DensityOf(query.fn, query.z, query.foF2 - FoF2Step,
                                         query.season))
                 <= query.Ne \div 100 + 100 * FoF2Step

TwoDQuery == query.fn \in {"electronDensity2DSingle", "makeTiltedIonosphere2D"}

\* The 1D function a 2D function applies to the local foF2.
OneDOf(fn, z, foF2, season) ==
    IF fn = "makeTiltedIonosphere2D" THEN makeIonosphereForFoF2(z, foF2, season)
    ELSE electronDensitySingle(z, foF2, season)

\* The value is the 1D density at a local foF2 within [2, 25] MHz, and at
\* x = 0 with foF2_tx in [2, 25] it is the 1D density for foF2_tx.
LocalFoF2Applied ==
    /\ query.foF2 >= 2000 /\ query.foF2 <= 25000
    /\ query.Ne = OneDOf(query.fn, query.z, query.foF2, query.season)
    /\ (query.x = 0 /\ query.foF2_at_tx >= 2000 /\ query.foF2_at_tx <= 25000)
          => /\ query.foF2 = query.foF2_at_tx
             /\ query.Ne = OneDOf(query.fn, query.z, query.foF2_at_tx, query.season)

\* C17, as claimed: for every z, x, foF2_tx, foF2_ref, ref_distance and
\* season the 2D density is the 1D density at the clamped interpolated foF2,
\* which lies within [2, 25] MHz, and at x = 0 with foF2_tx in [2, 25] it is
\* the 1D density for foF2_tx.
C17_LocalFoF2ForEveryDistance == TwoDQuery => LocalFoF2Applied

\* C17, amended: the same for every ref_distance other than 0; the local
\* foF2 is foF2_tx + (foF2_ref - foF2_tx) * x / ref_distance wherever that
\* lies within [2, 25], and the nearer limit elsewhere.  With
\* ref_distance = 0 the local foF2 and the density are NaN at x = 0 and
\* wherever foF2_ref = foF2_tx.
C17_LocalFoF2ForNonZeroDistance ==
    TwoDQuery =>
        /\ query.tilt_distance # 0 =>
              /\ LocalFoF2Applied
              /\ query.foF2 = Max(2000, Min(25000,
                    foF2Unclamped(query.x, query.foF2_at_tx, query.foF2_at_distance,
                                  query.tilt_distance)))
        /\ (query.tilt_distance = 0
             /\ (query.x = 0 \/ query.foF2_at_distance = query.foF2_at_tx))
              => query.foF2 = NaN /\ query.Ne = NaN

\* 500 km along a tilt from 15 to 4 MHz over 1000 km: the local foF2 is 9.5.
C17_Witness ==
    /\ query.fn = "electronDensity2DSingle"
    /\ query.x = 50000000 /\ query.tilt_distance = 1000
    /\ query.foF2_at_tx = 15000 /\ query.foF2_at_distance = 4000
    /\ query.foF2 = 9500
    /\ query.z = 300000
    /\ query.Ne > 0
    /\ query.Ne # electronDensitySingle(query.z, query.foF2_at_tx, query.season)

\* A pass of the loop body that gets as far as the refractive index.
IndexTaken == InLoop /\ last' # last /\ last'.exit # "returns"

\* The pass takes the index of the density Ne at the altitude of its start,
\* with the collision frequency at max(0, z).
IndexTakenFrom(Ne) ==
    /\ last'.z = r - R_E_m
    /\ last'.n_real = indexWith(args, Ne, r - R_E_m).real
    /\ last'.n2_real = nSquared(indexWith(args, Ne, r - R_E_m)).real

\* C18, as claimed: in every variant the density of a pass is 0 for z < 0,
\* the value of the density function for 0 <= z <= 600 km and 0 above
\* 600 km, and the collision frequency is taken at max(0, z).
C18_DensityCutAt600 ==
    [][IndexTaken =>
        IndexTakenFrom(IF r - R_E_m >= 0 /\ r - R_E_m <= 600000
                       THEN densityFunction(args, r - R_E_m, x) ELSE 0)]_vars

\* C18, amended: the density of a pass is 0 for z < 0 and the value of the
\* density function for 0 <= z <= 600 km in every variant; above 600 km it
\* is 0 in the 2D variants and the value of the callable in the 1D variants;
\* the collision frequency is taken at max(0, z).
C18_DensityCutAt600In2D ==
    [][IndexTaken =>
        /\ IndexTakenFrom(densityUsed(args, r - R_E_m, x))
        /\ r - R_E_m < 0 => densityUsed(args, r - R_E_m, x) = 0
        /\ (r - R_E_m >= 0 /\ r - R_E_m <= 600000)
              => densityUsed(args, r - R_E_m, x) = densityFunction(args, r - R_E_m, x)
        /\ (r - R_E_m > 600000 /\ TwoD(args))
              => densityUsed(args, r - R_E_m, x) = 0 /\ last'.n_real = NS
        /\ (r - R_E_m > 600000 /\ ~TwoD(args))
              => densityUsed(args, r - R_E_m, x)
                   = ionosphere_func(args.ionosphere_func, r - R_E_m)]_vars

\* A 1D pass above 600 km inside the sheet: the index is that of the sheet.
C18_Witness ==
    /\ ~TwoD(args) /\ pc # "idle"
    /\ last.exit = "advance"
    /\ last.z > 600000
    /\ ionosphere_func(args.ionosphere_func, last.z) > 0
    /\ last.n_real < NS /\ last.n_real > 0

\* The reference tilt: foF2 from 15 MHz at the transmitter to 4 MHz at
\* 3000 km.
ReferenceTilt ==
    /\ TwoD(args)
    /\ args.foF2_at_tx = 15000 /\ args.foF2_at_distance = 4000
    /\ args.tilt_distance = 3000

\* A pass of the reference case at x > 0 that leaves the ray going up.
BeforeReflection == IndexTaken /\ ReferenceTilt /\ x > 0 /\ last'.going_up_2

withoutAbsorption(call) ==
    [call EXCEPT !.variant = IF TwoD(call) THEN "tilt" ELSE "path"]

StepTaken == IndexTaken /\ last'.exit \in {"advance", "distance"}

\* C21: the step length of a pass is 0.5 km when Re(n) < 0.1 or
\* |sin psi| > 0.95, with sin psi taken after the reflection clamp, and 1 km
\* otherwise; a forced or clamped reflection uses 0.5 km; and r, theta, the
\* loss and the azimuth of the pass advance by the one step length.
C21_OneAdaptiveStep ==
    [][StepTaken =>
        /\ last'.adaptive_step = IF last'.n_real < 1000 \/ Abs(last'.sin_psi) > 9500
                                 THEN 500 ELSE 1000
        /\ last'.reflects => last'.sin_psi = clampSin(last'.sin_raw)
        /\ ~last'.reflects => last'.sin_psi = last'.sin_raw
        /\ (last'.forced \/ last'.reflects) => last'.adaptive_step = 500
        /\ r' - r = radialAdvance(last'.adaptive_step, last'.cos_psi, going_up')
        /\ theta' - theta = angularAdvance(last'.adaptive_step, last'.sin_psi, r)
        /\ total_loss_nepers' - total_loss_nepers
             = lossAdvance(last'.alpha, last'.adaptive_step)
        /\ phi' - phi = IF TwoD(args)
                        THEN azimuthAdvance(last'.n_real, last'.dn_dx, last'.sin_psi,
                                            last'.adaptive_step)
                        ELSE 0]_vars

\* A clamped reflection of an absorption trace: a step of 0.5 km.
C21_Witness ==
    /\ TracksLoss(args)
    /\ last.exit = "advance"
    /\ last.reflects /\ ~last.forced
    /\ Abs(last.sin_raw) >= NS /\ last.sin_psi = 9990
    /\ last.adaptive_step = 500
    /\ last.alpha > 0

\* C22: in the 2D variants dn_dx is the centred difference when
\* x > dx_sample and the forward difference when 0 < x <= dx_sample
\* (dx_sample = 0.5 km if Re n < 0.1, else 1 km); the azimuth increment is 0
\* unless |sin psi| > 0.1 and Re n > 0.05; the smoothing factor lies in
\* [0, 1]; and the pass from x = 0, where the forward difference is 0 too,
\* adds no deflection, so the first two recorded azimuths are 0.
C22_AzimuthGating ==
    [][(IndexTaken /\ TwoD(args)) =>
        /\ x > dxSample(last'.n_real)
             => last'.dn_dx = centredDifference(args, r - R_E_m, x, last'.n_real)
        /\ (x > 0 /\ x <= dxSample(last'.n_real))
             => last'.dn_dx = forwardDifference(args, r - R_E_m, x, last'.n_real)
        /\ x = 0 => /\ last'.dn_dx = 0
                    /\ last'.dphi = 0
                    /\ forwardDifference(args, r - R_E_m, x, last'.n_real) = 0
        /\ ~(Abs(last'.sin_psi) > 1000 /\ last'.n_real > 500) => last'.dphi = 0
        /\ smoothingFactor(last'.n_real, last'.sin_psi) >= 0
        /\ smoothingFactor(last'.n_real, last'.sin_psi) <= NS
        /\ Len(azimuths') >= 2 => azimuths'[1] = 0 /\ azimuths'[2] = 0]_vars

\* A deflected pass of a 2D trace whose smoothing factor is strictly between
\* 0 and 1.
C22_Witness ==
    /\ TwoD(args) /\ last.exit = "advance"
    /\ x > 100000
    /\ last.dphi # 0
    /\ smoothingFactor(last.n_real, last.sin_psi) > 0
    /\ smoothingFactor(last.n_real, last.sin_psi) < NS

\* C23: in the 2D variants x never decreases, every step adds
\* |d_theta * R_E| to it, and after every step x is the recorded distance
\* theta * R_E of that sample.
C23_XFollowsRecordedDistance ==
    [][(TwoD(args') /\ pc' # "idle") =>
        /\ x' >= x
        /\ StepTaken => x' - x = horizontalAdvance(theta, last'.d_theta)
        /\ x' = Last(distances')]_vars

\* C24: for every altitude, foF2 and season electronDensitySingle gives the
\* value of makeIonosphereForFoF2, the three derivations of the layer
\* parameters give the same parameters, and the four curves plotElectronDensity
\* computes again sum to the Total curve it plots.
C24_ThreeCopiesAgree ==
    (query.fn # "none" /\ query.foF2 # NaN) =>
        /\ electronDensitySingle(query.z, query.foF2, query.season)
             = makeIonosphereForFoF2(query.z, query.foF2, query.season)
        /\ densityParameters(query.foF2, query.season)
             = makeIonosphereParameters(query.foF2, query.season)
        /\ plotLayerParameters(query.foF2, query.season)
             = makeIonosphereParameters(query.foF2, query.season)
        /\ query.fn = "plotElectronDensity"
             => query.layers[1] + query.layers[2] + query.layers[3] + query.layers[4]
                  = query.Ne

\* The plot of a winter day at the F1 peak: four layers, three of them
\* present.
C24_Witness ==
    /\ query.fn = "plotElectronDensity"
    /\ query.season = "winter" /\ query.foF2 = 12000 /\ query.z = 190000
    /\ query.layers[3] > 0 /\ query.layers[4] > 0
    /\ query.Ne = electronDensitySingle(190000, 12000, "winter")
    /\ query.Ne > query.layers[3]

\* C25: distances, altitudes and, in 2D, azimuths always have the one length,
\* the number of steps taken plus one, at most floor(max_distance_km /
\* step_km) + 1; each starts with 0; in the absorption variants the loss grows
\* by alpha * path length with every recorded sample after the first and at
\* no other time, so not on the pass that returns 'returns' or 'escapes'; the
\* variants without absorption keep no loss.
C25_ParallelSequences ==
    [][pc' # "idle" =>
        /\ Len(altitudes') = Len(distances')
        /\ Len(azimuths') = IF TwoD(args') THEN Len(distances') ELSE 0
        /\ Len(distances') = step' + 1
        /\ Len(distances') <= maxSteps(args'.max_distance_km) + 1
        /\ distances'[1] = 0 /\ altitudes'[1] = 0
        /\ TwoD(args') => azimuths'[1] = 0
        /\ pc = "idle" => Len(distances') = 1 /\ total_loss_nepers' = 0
        /\ (pc = "loop" /\ Len(distances') = Len(distances))
              => total_loss_nepers' = total_loss_nepers /\ pc' = "done"
        /\ (pc = "loop" /\ Len(distances') # Len(distances))
              => /\ Len(distances') = Len(distances) + 1
                 /\ total_loss_nepers' = total_loss_nepers
                       + lossAdvance(last'.alpha, last'.adaptive_step)
        /\ (pc = "loop" /\ pc' = "done" /\ result'.status \in {"returns", "escapes"})
              => Len(distances') = Len(distances)
        /\ ~TracksLoss(args') => total_loss_nepers' = 0
        /\ pc' = "done" =>
              result'.total_loss_dB = IF TracksLoss(args')
                                      THEN lossInDecibel(total_loss_nepers') ELSE 0]_vars

\* A returned 2D absorption trace: three sequences of one length and a loss.
C25_Witness ==
    /\ pc = "done" /\ args.variant = "tiltabs"
    /\ result.status \in {"returns", "escapes"}
    /\ Len(distances) = step + 1 /\ Len(azimuths) = Len(distances)
    /\ Len(distances) > 50
    /\ total_loss_nepers > 0

\* C26: every 'change' event on a 2D control copies the five control values
\* into currentState, shows the indicator when the element exists and
\* schedules one more redraw; when no scheduled timer is left the latest
\* redraw used the latest currentState and the indicator is not shown; the
\* indicator is never shown with no redraw pending, whether the element exists
\* or not.
ChangeHandled == ui.page = "ready" /\ ui'.timers = ui.timers + 1
C26_ChangeCopiesShowsSchedules == [][ChangeHandled => (ui'.currentState = ui.controls /\ ui'.controls = ui.controls /\ (ui.present => ui'.display = "inline-block") /\ (~ui.present => ui'.display = "none") /\ ui'.drawn = ui.drawn)]_ui
C26_NoTimerLeft == (ui.page = "ready" /\ ui.timers = 0) => (ui.drawn = ui.currentState /\ ui.display = "none")
C26_ShownOnlyWhilePending == (ui.display = "inline-block") => (ui.present /\ ui.timers > 0)
C26_UpdateHandling == [](C26_NoTimerLeft /\ C26_ShownOnlyWhilePending) /\ C26_ChangeCopiesShowsSchedules
C26_Witness == ui.page = "ready" /\ ui.timers = 0 /\ ui.present /\ ui.threw = FALSE /\ ui.currentState.foF2_tx_2d = 4000 /\ ui.currentState.season_2d = "winter" /\ ui.drawn = ui.currentState /\ ui.display = "none"

\* C27: a trace starts ascending; while it runs the flag going_up only ever
\* changes from TRUE to FALSE; and a trace that ends with 'escapes' is still
\* ascending, so it has never reflected.
Launching == pc = "idle" /\ pc' = "loop"
C27_DirectionMonotone == [][(Launching => going_up') /\ (pc = "loop" => (going_up' => going_up)) /\ (pc = "done" => going_up' = going_up)]_vars /\ []((pc = "done" /\ result.status = "escapes") => (going_up /\ last.going_up_0 /\ last.exit \in {"soft", "hard"}))
C27_Witness == pc = "done" /\ result.status = "escapes" /\ going_up /\ last.exit = "soft" /\ last.reflects /\ last.z > 600000

\* C28: a step taken while the ray is ascending has dr >= 0 and leaves the
\* altitude at or above 0; a step taken once the ray is descending has
\* cos psi > 0, |sin psi| below 1 (0.999 when clamped) and strictly lowers the
\* altitude; an ascending ray is never below the ground; and a trace ends with
\* 'returns' only when the ray was already descending when the pass began.
C28_StepsByDirection == [][StepTaken => (Abs(last'.sin_psi) < NS /\ (last'.reflects => Abs(last'.sin_psi) = 9990) /\ (last'.going_up_2 => (last'.dr >= 0 /\ r' >= r /\ r' - R_E_m >= 0)) /\ (~last'.going_up_2 => (last'.cos_psi > 0 /\ last'.dr < 0 /\ r' < r)))]_vars
C28_ReturnsOnlyAfterReflection == C28_StepsByDirection /\ []((going_up /\ pc # "idle") => (r >= R_E_m /\ Last(altitudes) >= 0)) /\ []((pc = "done" /\ result.status = "returns") => (~going_up /\ ~last.going_up_0 /\ last.z < 0 /\ Last(altitudes) < 0))
C28_Witness == pc = "done" /\ result.status = "returns" /\ TwoD(args) /\ ~going_up /\ last.z < 0 /\ Len(altitudes) > 100

\* C29: the status of a result agrees with its last sample: 'returns' has a
\* last altitude below 0 and at least 12 samples; 'escapes' has a last
\* altitude above 600 km; 'stops' has a last distance above max_distance_km or
\* exactly floor(max_distance_km / step_km) + 1 samples.
Samples == Len(altitudes)
C29_StatusMatchesLastSample == (pc = "done") => (Len(distances) = Samples /\ (result.status = "returns" => (Last(altitudes) < 0 /\ Samples >= 12)) /\ (result.status = "escapes" => Last(altitudes) > 600 * KM) /\ (result.status = "stops" => (Last(distances) > args.max_distance_km * 100000 \/ Samples = maxSteps(args.max_distance_km) + 1)) /\ result.status \in {"returns", "escapes", "stops"})
C29_Witness == pc = "done" /\ result.status = "stops" /\ Samples = maxSteps(args.max_distance_km) + 1 /\ Last(altitudes) < 0 /\ Samples = Len(distances)

\* The call plotRayPaths1D makes for the foF2 and the season of a 2D call:
\* traceRaySphericalWithPath with the closure over makeIonosphereForFoF2.
plotRayPaths1D(call) == Call1D("path", call.freq_MHz, call.elevation_deg, Profile(call.foF2_at_tx, call.season), call.max_distance_km)

\* A returned 2D trace without horizontal gradient: foF2_tx = foF2_ref within
\* [2, 25] MHz.
NoGradientReturned == pc = "done" /\ TwoD(args) /\ args.foF2_at_tx = args.foF2_at_distance /\ args.foF2_at_tx >= 2000 /\ args.foF2_at_tx <= 25000 /\ args.tilt_distance > 0

\* No sample before the i-th is above 600 km.
Below600Before(i) == \A j \in 1..(i - 1) : altitudes[j] <= 600 * KM

\* C30, as claimed: without gradient the 2D trace returns the distances, the
\* altitudes and the status of the 1D trace for that foF2 and season, and every
\* recorded azimuth is 0, also for a ray that climbs above 600 km.
C30_DegeneratesTo1D == NoGradientReturned => (\E t \in {RunToReturn(Launched(plotRayPaths1D(args)))} : (t.distances = distances /\ t.altitudes = altitudes /\ t.result.status = result.status) /\ \A i \in 1..Len(azimuths) : azimuths[i] = 0)

\* C30, amended: without gradient every recorded azimuth is 0, and the 2D and
\* the 1D trace record the same samples up to and including the first one
\* above 600 km; a 2D trace with no sample above 600 km has the distances, the
\* altitudes and the status of the 1D trace.
C30_DegeneratesTo1DBelow600 == NoGradientReturned => (\E t \in {RunToReturn(Launched(plotRayPaths1D(args)))} : ((\A i \in 1..Len(altitudes) : Below600Before(i) => (i <= Len(t.altitudes) /\ t.altitudes[i] = altitudes[i] /\ t.distances[i] = distances[i])) /\ (Below600Before(Len(altitudes) + 1) => (t.distances = distances /\ t.altitudes = altitudes /\ t.result.status = result.status))) /\ (\A i \in 1..Len(azimuths) : azimuths[i] = 0) /\ (\A i \in 1..Len(result.azimuths) : result.azimuths[i] = 0))
C30_Witness == NoGradientReturned /\ result.status = "returns" /\ Below600Before(Len(altitudes) + 1) /\ Len(altitudes) > 100 /\ \E i \in 1..Len(altitudes) : altitudes[i] > 100 * KM

=============================================================================
